---- MODULE Spec2Model ----
(***************************************************************************)
(* The synchronization engine of offline-first-taskmaster: vector clocks,  *)
(* conflict detection, and the push handler of backend/sync/views.py over  *)
(* the Task / Comment / Tombstone / Conflict tables.                       *)
(*                                                                         *)
(* The database is PostgreSQL (tasks/models.py uses ArrayField, GinIndex)  *)
(* and the push handler runs inside one transaction.atomic() block.  Two   *)
(* facts of that platform shape the model:                                 *)
(*  - Task and Comment have a primary key with a default (uuid.uuid4), so  *)
(*    Model.save() of a NEW instance is always an INSERT (Django >= 3.0;   *)
(*    models.JSONField needs >= 3.1): saving a new instance whose id is    *)
(*    already in the table raises IntegrityError, it never updates.        *)
(*  - a statement that fails inside the atomic block leaves the           *)
(*    transaction unusable (PostgreSQL aborts it, and Django answers every *)
(*    later query with TransactionManagementError): the remaining changes  *)
(*    are skipped by the loops' except clauses, device.update_vector_clock *)
(*    raises, the atomic block rolls everything back and the push answers  *)
(*    500.  A Python error raised before any statement (KeyError on a      *)
(*    missing payload key, ParentDeletedError) leaves the transaction      *)
(*    usable.                                                              *)
(* Time is the counter now.  The columns a pull filters and orders by are  *)
(* carried as instants of that counter: updated_at of tasks and comments   *)
(* (auto_now: written by every full save()), created_at and expires_at of  *)
(* tombstones.  The other wall-clock columns (created_at of entities,      *)
(* last_sync_at, duration_ms) are not carried; deleted_at, resolved_at and *)
(* completed_at are carried as null or set.                                *)
(***************************************************************************)
EXTENDS Integers, Sequences, FiniteSets, TLC

VARIABLES
    tasks,       \* table tasks: id -> row (soft-deleted rows included)
    comments,    \* table comments: id -> row (soft-deleted rows included)
    tombstones,  \* table tombstones, in insertion order
    conflicts,   \* table conflicts, in insertion order
    devices,     \* table devices: id -> [vector_clock]
    sync_log,    \* the latest row of table sync_logs, if any
    req,         \* the request being answered, if any
    pre,         \* the tables as that request found them
    resp,        \* the response to it, not yet delivered
    now,         \* timezone.now(), in ticks
    last_push,   \* the latest push answered 200 and the tables it left, where recorded
    reading,     \* per device (per worker in the in-flight specification), the push between its reads and its commit
    cache,       \* the throttling histories: (scope, user) -> instants, latest first
    task_history \* table task_history, in insertion order

vars == <<tasks, comments, tombstones, conflicts, devices, sync_log, req, pre, resp, now,
          last_push, reading, cache, task_history>>

NULL == "null"
\* timezone.now(): every instant written by these handlers is "after the start".
Stamp == "now"

----------------------------------------------------------------------------
(* Principals.  Two organizations; dA and dB are devices of user u1 of     *)
(* organization o1, dC is the device of user u2 of organization o2.        *)

Users == {"u1", "u2"}
Devices == {"dA", "dB", "dC"}

UserOrg(u) == IF u = "u1" THEN "o1" ELSE "o2"
DeviceUser(d) == IF d = "dC" THEN "u2" ELSE "u1"

\* dI is a device of user u1 with is_active = False: Device.objects, the manager of
\* active devices, does not return it.  No device has the id dX.
InactiveDevices == {"dI"}
UnknownDevice == "dX"
\* A device id that is not the text of a UUID.
NotAUUID == "not-a-uuid"

\* Device.objects.get(id=device_id, user=request.user) returns a row.
Registered(deviceId, user) == deviceId \in Devices /\ DeviceUser(deviceId) = user

----------------------------------------------------------------------------
(* Dictionaries (JSON payloads, vector clocks) are functions whose domain  *)
(* is the set of keys present.                                             *)

Has(d, k) == k \in DOMAIN d
Get(d, k, default) == IF k \in DOMAIN d THEN d[k] ELSE default
Put(d, k, v) == [x \in DOMAIN d \cup {k} |-> IF x = k THEN v ELSE d[x]]

Max(a, b) == IF a >= b THEN a ELSE b

----------------------------------------------------------------------------
(* Vector clocks: sync/utils.py                                            *)

ClockKeys == {"dA", "dB"}
MaxClock == 1
EmptyClock == [k \in {} |-> 0]
Clocks == UNION {[S -> 1..MaxClock] : S \in SUBSET ClockKeys}

\* A JSON value that is not an object (an array, a string, a number, null) where
\* a clock is expected is written NotAMapping, the function of the reserved key "#".
NotAMapping == [k \in {"#"} |-> 1]

\* "if not isinstance(clock, dict): clock = {}"
Coerced(clock) == IF "#" \in DOMAIN clock THEN EmptyClock ELSE clock

\* The loop of compare_vector_clocks over all_devices and its final branches.
Compared(clock1, clock2, all_devices) ==
    LET clock1_greater == \E k \in all_devices : Get(clock1, k, 0) > Get(clock2, k, 0)
        clock2_greater == \E k \in all_devices : Get(clock2, k, 0) > Get(clock1, k, 0)
    IN  IF clock1_greater /\ clock2_greater THEN "CONCURRENT"
        ELSE IF clock1_greater THEN "AFTER"
        ELSE IF clock2_greater THEN "BEFORE"
        ELSE "EQUAL"

\* A variant of the function below that looks at the devices of its first clock only.
CompareOverFirst(clock1, clock2) ==
    Compared(Coerced(clock1), Coerced(clock2), DOMAIN Coerced(clock1))

\* A variant of the function below without the isinstance tests.
CompareUncoerced(clock1, clock2) ==
    Compared(clock1, clock2, DOMAIN clock1 \cup DOMAIN clock2)

compare_vector_clocks(clock1, clock2) ==
    Compared(Coerced(clock1), Coerced(clock2),
             DOMAIN Coerced(clock1) \cup DOMAIN Coerced(clock2))

\* The loop of merge_vector_clocks over all_devices.
Merged(clock1, clock2, all_devices) ==
    [k \in all_devices |-> Max(Get(clock1, k, 0), Get(clock2, k, 0))]

\* A variant of the function below that binds the devices of its first clock only.
MergeOverFirst(clock1, clock2) ==
    Merged(Coerced(clock1), Coerced(clock2), DOMAIN Coerced(clock1))

merge_vector_clocks(clock1, clock2) ==
    Merged(Coerced(clock1), Coerced(clock2),
           DOMAIN Coerced(clock1) \cup DOMAIN Coerced(clock2))

\* A variant of the function below that increments the dictionary it is handed.
IncrementedInPlace(device_id, clock) ==
    [clock |-> IF "#" \in DOMAIN clock THEN clock
               ELSE Put(clock, device_id, Get(clock, device_id, 0) + 1),
     returned |-> Put(Coerced(clock), device_id, Get(Coerced(clock), device_id, 0) + 1)]

\* increment_vector_clock(device_id, clock): the clock it returns, and the
\* dictionary it was handed as the call leaves it (the function works on a copy).
increment_vector_clock(device_id, clock) ==
    [clock |-> clock,
     returned |-> Put(Coerced(clock), device_id, Get(Coerced(clock), device_id, 0) + 1)]

\* A counter of a stored or pushed clock that is not a number (a JSON string or
\* null; the payloads are not validated) is written NotANumber.
NotANumber == -1

Malformed(clock) == \E k \in DOMAIN clock : clock[k] = NotANumber

\* v1 > v2 and max(v1, v2) raise TypeError between a number and a non-number.
Incomparable(clock1, clock2) ==
    \E k \in DOMAIN clock1 \cup DOMAIN clock2 :
        (Get(clock1, k, 0) = NotANumber) # (Get(clock2, k, 0) = NotANumber)

\* detect_conflict(local_entity, server_entity, client_vector_clock): the third
\* argument is never read.
detect_conflict(local_entity, server_entity) ==
    LET relation == compare_vector_clocks(Get(local_entity, "vector_clock", EmptyClock),
                                          Get(server_entity, "vector_clock", EmptyClock))
    IN  IF relation = "CONCURRENT"
        THEN [has_conflict |-> TRUE, reason |-> "Concurrent modification detected"]
        ELSE [has_conflict |-> FALSE, reason |-> NULL]

----------------------------------------------------------------------------
(* Tables.  A database state is a record of the four tables the push       *)
(* handler reads and writes.                                               *)

Database(t, c, ts, cf) == [tasks |-> t, comments |-> c, tombstones |-> ts, conflicts |-> cf]

\* soft_delete() saves deleted_at alone (update_fields), so updated_at stays.
\* Task.objects (TaskManager) hides soft-deleted rows; Task.all_objects does not.
TaskAllObjects(db, id, org) == id \in DOMAIN db.tasks /\ db.tasks[id].organization = org
TaskObjects(db, id, org) == TaskAllObjects(db, id, org) /\ db.tasks[id].deleted_at = NULL

\* What a helper of the push handler hands back: the database as it leaves it,
\* the Conflict it returns (a sequence of at most one row) and the exception it
\* raised ("none" when it returned).
Returned(db, conflict) == [db |-> db, conflict |-> conflict, raised |-> "none"]
Raised(db, exc) == [db |-> db, conflict |-> <<>>, raised |-> exc]

----------------------------------------------------------------------------
(* Tasks: the content fields of the stored rows are title, status and      *)
(* due_date; description, priority, assigned_to, tags, custom_fields and   *)
(* position are copied by the same data.get(field, stored) pattern as      *)
(* title and status.  The merge policy covers all nine fields.             *)

TaskContentFields == {"title", "status"}

\* A due_date of None.
NoDate == "None"

\* _parse_timestamp(value).isoformat(): the text of the datetime object that
\* datetime.fromisoformat makes of a payload's due_date after 'Z' has been
\* replaced by '+00:00'; the object keeps the offset the payload wrote.
_parse_timestamp(timestamp_value) ==
    CASE timestamp_value = NoDate -> NoDate
      [] timestamp_value = "2026-03-10T00:00:00Z" -> "2026-03-10T00:00:00+00:00"
      [] OTHER -> timestamp_value

\* The isoformat() of a due_date as the column returns it: the same instant in
\* the time zone of the connection, whatever offset was written.
ColumnValue(due_date) ==
    CASE due_date = "2026-03-10T05:00:00+05:00" -> "2026-03-10T00:00:00+00:00"
      [] OTHER -> due_date

\* The due_date of a row as DateTimeField.to_representation writes it.
Representation(due_date) ==
    CASE due_date = "2026-03-10T00:00:00+00:00" -> "2026-03-10T00:00:00Z"
      [] OTHER -> due_date

\* hashlib.sha256(content_str.encode()).hexdigest(): a digest is modelled by the
\* text it was computed from, two texts having the same digest when they are equal.
sha256(content_str) == "sha256:" \o content_str

\* Task.calculate_checksum over the fields of the object task as they are in memory.
calculate_checksum(task) ==
    sha256("due_date=" \o task.due_date \o ";status=" \o task.status
           \o ";title=" \o task.title)

\* Task.save: the checksum is computed from the object when it has none or when
\* recalculate_checksum is passed, and the row is written; the result is the row
\* as the table holds it.
Saved(task, recalculate_checksum) ==
    [task EXCEPT
        !.checksum = IF task.checksum = NULL \/ recalculate_checksum
                     THEN calculate_checksum(task) ELSE @,
        !.due_date = ColumnValue(@)]

\* TaskSerializer(task).data passed through _json_safe: the stored row as a payload.
TaskSerializer(id, task) ==
    [id |-> id,
     organization |-> task.organization,
     deleted_at |-> task.deleted_at,
     due_date |-> Representation(task.due_date),
     status |-> task.status,
     title |-> task.title,
     version |-> task.version,
     vector_clock |-> task.vector_clock,
     last_modified_by |-> task.last_modified_by,
     last_modified_device |-> task.last_modified_device,
     updated_at |-> task.updated_at]

StatusRank(s) ==
    CASE s = "todo" -> 0
      [] s = "in_progress" -> 1
      [] s = "blocked" -> 2
      [] s = "done" -> 3
      [] s = "cancelled" -> 4

PriorityRank(p) ==
    CASE p = "low" -> 0
      [] p = "medium" -> 1
      [] p = "high" -> 2
      [] p = "urgent" -> 3

\* The ISO dates and instants of the payloads in the order they compare as strings.
DateOrder ==
    <<"2026-03-10", "2026-03-10T00:00:00Z", "2026-03-10T05:00:00+05:00", "2026-03-15">>

DateRank(d) == CHOOSE i \in DOMAIN DateOrder : DateOrder[i] = d

\* The earlier of two due dates; None loses to any date.
Earlier(a, b) ==
    IF a = NoDate THEN b
    ELSE IF b = NoDate THEN a
    ELSE IF DateRank(a) <= DateRank(b) THEN a ELSE b

\* The tags of the payloads in the order sorted() gives them.
TagOrder == <<"bug", "feature">>

\* sorted(set(a) | set(b))
SortedUnion(a, b) ==
    SelectSeq(TagOrder, LAMBDA t : \/ \E i \in DOMAIN a : a[i] = t
                                   \/ \E i \in DOMAIN b : b[i] = t)

\* The key-wise merge of two custom_fields mappings.
CustomMerged(a, b) ==
    [k \in DOMAIN a \cup DOMAIN b |-> IF k \in DOMAIN a THEN a[k] ELSE b[k]]

\* The merge policy, field by field, in the order of the policy table.
TaskPolicyFields ==
    <<"title", "description", "status", "priority", "due_date", "assigned_to", "tags",
      "custom_fields", "position">>

PolicyFieldNames == {TaskPolicyFields[i] : i \in DOMAIN TaskPolicyFields}

\* A variant that reports a disagreement on the title only.
TitleOnlyUnresolvable(f, local_data, server_data) ==
    /\ f = "title"
    /\ Has(local_data, f) /\ Has(server_data, f)
    /\ local_data[f] # server_data[f]

TaskFieldUnresolvable(f, local_data, server_data) ==
    /\ Has(local_data, f) /\ Has(server_data, f)
    /\ IF f = "custom_fields"
       THEN \E k \in DOMAIN local_data[f] \cap DOMAIN server_data[f] :
               local_data[f][k] # server_data[f][k]
       ELSE /\ f \in {"title", "description", "assigned_to"}
            /\ local_data[f] # server_data[f]

\* A variant in which the local value wins wherever both payloads have the field.
TaskFieldLocalWins(f, local_data, server_data) ==
    IF ~Has(local_data, f) THEN server_data[f] ELSE local_data[f]

TaskFieldMerged(f, local_data, server_data) ==
    IF ~Has(local_data, f) THEN server_data[f]
    ELSE IF ~Has(server_data, f) THEN local_data[f]
    ELSE IF f = "status"
         THEN IF StatusRank(local_data[f]) > StatusRank(server_data[f])
              THEN local_data[f] ELSE server_data[f]
    ELSE IF f = "priority"
         THEN IF PriorityRank(local_data[f]) > PriorityRank(server_data[f])
              THEN local_data[f] ELSE server_data[f]
    ELSE IF f = "due_date" THEN Earlier(local_data[f], server_data[f])
    ELSE IF f = "tags" THEN SortedUnion(local_data[f], server_data[f])
    ELSE IF f = "custom_fields" THEN CustomMerged(local_data[f], server_data[f])
    ELSE IF f = "position" THEN server_data[f]
    ELSE local_data[f]

\* auto_resolve_task_conflict(local_data, server_data)
\*   -> (resolved_data, auto_resolved, unresolvable)
auto_resolve_task_conflict(local_data, server_data) ==
    LET present == {f \in PolicyFieldNames : Has(local_data, f) \/ Has(server_data, f)}
        unresolvable == SelectSeq(TaskPolicyFields,
                                  LAMBDA f : TaskFieldUnresolvable(f, local_data, server_data))
    IN  [unresolvable |-> unresolvable,
         resolved_data |-> [f \in present |-> TaskFieldMerged(f, local_data, server_data)],
         auto_resolved |-> unresolvable = <<>>]

\* ', '.join(unresolvable)
RECURSIVE Join(_)
Join(names) ==
    IF names = <<>> THEN ""
    ELSE IF Len(names) = 1 THEN names[1]
    ELSE names[1] \o ", " \o Join(Tail(names))

ManualReason(reason, unresolvable) == reason \o ". Unresolvable fields: " \o Join(unresolvable)

----------------------------------------------------------------------------
(* Task changes of a push: sync/views.py                                   *)

\* Model.save() of a new instance: INSERT; a row with that id, in whatever
\* organization, makes it fail.
InsertFails(table, id) == id \in DOMAIN table

\* The row Task(...) of _create_task builds; deleted_at keeps the field's default.
NewTaskRow(data, user, device) ==
    Saved([organization |-> UserOrg(user),
           deleted_at |-> NULL,
           due_date |-> _parse_timestamp(Get(data, "due_date", NoDate)),
           status |-> Get(data, "status", "todo"),
           title |-> data["title"],
           checksum |-> NULL,
           version |-> Get(data, "version", 1),
           vector_clock |-> Get(data, "vector_clock", EmptyClock),
           last_modified_by |-> user,
           last_modified_device |-> device,
           updated_at |-> now],
          FALSE)

_create_task(db, data, user, device) ==
    IF ~Has(data, "id") \/ ~Has(data, "title") THEN Raised(db, "KeyError")
    ELSE IF InsertFails(db.tasks, data["id"]) THEN Raised(db, "IntegrityError")
    ELSE Returned([db EXCEPT !.tasks = Put(db.tasks, data["id"], NewTaskRow(data, user, device))],
                  <<>>)

\* A variant of the block below that leaves the attribution of the row alone.
TaskAppliedUnattributed(task, data, user, device) ==
    [task EXCEPT
        !.title = Get(data, "title", task.title),
        !.status = Get(data, "status", task.status),
        !.version = Get(data, "version", task.version),
        !.vector_clock = Get(data, "vector_clock", task.vector_clock),
        !.updated_at = now]

\* "No conflict, apply changes": the assignments of _update_task's last block.
TaskApplied(task, data, user, device) ==
    Saved([task EXCEPT
              !.title = Get(data, "title", task.title),
              !.status = Get(data, "status", task.status),
              !.due_date = IF Has(data, "due_date") THEN _parse_timestamp(data["due_date"])
                           ELSE task.due_date,
              !.version = Get(data, "version", task.version),
              !.vector_clock = Get(data, "vector_clock", task.vector_clock),
              !.last_modified_by = user,
              !.last_modified_device = device,
              !.updated_at = now],
          TRUE)

\* A variant of the block below that takes the payload's clock instead of the merge.
TaskMergedPayloadClock(task, data, resolved_data, user, device) ==
    [task EXCEPT
        !.title = Get(resolved_data, "title", task.title),
        !.status = Get(resolved_data, "status", task.status),
        !.vector_clock = Get(data, "vector_clock", EmptyClock),
        !.version = Max(Get(data, "version", 1), task.version) + 1,
        !.last_modified_by = user,
        !.last_modified_device = device,
        !.updated_at = now]

\* The assignments of _update_task's auto_resolved block.
TaskMerged(task, data, resolved_data, user, device) ==
    Saved([task EXCEPT
              !.title = Get(resolved_data, "title", task.title),
              !.status = Get(resolved_data, "status", task.status),
              !.due_date = IF Has(resolved_data, "due_date")
                           THEN _parse_timestamp(resolved_data["due_date"])
                           ELSE task.due_date,
              !.vector_clock = merge_vector_clocks(Get(data, "vector_clock", EmptyClock),
                                                   task.vector_clock),
              !.version = Max(Get(data, "version", 1), task.version) + 1,
              !.last_modified_by = user,
              !.last_modified_device = device,
              !.updated_at = now],
          TRUE)

\* Conflict.objects.create(...) of an auto-resolved merge: server_vector_clock is
\* read from the task after the merge has been assigned to it.
AutoResolvedConflict(etype, id, data, server_data, server_clock, reason, resolved_data, user, device) ==
    [user |-> user,
     device |-> device,
     entity_type |-> etype,
     entity_id |-> id,
     local_version |-> data,
     server_version |-> server_data,
     local_vector_clock |-> Get(data, "vector_clock", EmptyClock),
     server_vector_clock |-> server_clock,
     conflict_reason |-> reason,
     resolution_strategy |-> "auto_resolved",
     resolved_version |-> <<resolved_data>>,
     resolved_by |-> user,
     resolved_at |-> Stamp]

\* A variant of the row below that is stored as already resolved.
ManualConflictResolved(etype, id, data, server_data, server_clock, reason, unresolvable, user, device) ==
    [user |-> user,
     device |-> device,
     entity_type |-> etype,
     entity_id |-> id,
     local_version |-> data,
     server_version |-> server_data,
     local_vector_clock |-> Get(data, "vector_clock", EmptyClock),
     server_vector_clock |-> server_clock,
     conflict_reason |-> ManualReason(reason, unresolvable),
     resolution_strategy |-> "manual",
     resolved_version |-> <<>>,
     resolved_by |-> user,
     resolved_at |-> Stamp]

\* Conflict.objects.create(...) of a conflict left for manual resolution.
ManualConflict(etype, id, data, server_data, server_clock, reason, unresolvable, user, device) ==
    [user |-> user,
     device |-> device,
     entity_type |-> etype,
     entity_id |-> id,
     local_version |-> data,
     server_version |-> server_data,
     local_vector_clock |-> Get(data, "vector_clock", EmptyClock),
     server_vector_clock |-> server_clock,
     conflict_reason |-> ManualReason(reason, unresolvable),
     resolution_strategy |-> NULL,
     resolved_version |-> <<>>,
     resolved_by |-> NULL,
     resolved_at |-> NULL]

_update_task(db, data, user, device) ==
    IF ~Has(data, "id") THEN Raised(db, "KeyError")
    ELSE IF ~TaskAllObjects(db, data["id"], UserOrg(user))
    THEN \* Task.DoesNotExist: "Task doesn't exist on server, create it"
         LET created == _create_task(db, data, user, device)
         IN  [created EXCEPT !.conflict = <<>>]
    ELSE
    LET task_id == data["id"]
        task == db.tasks[task_id]
        detected == detect_conflict(data, [vector_clock |-> task.vector_clock])
        server_data == TaskSerializer(task_id, task)
        auto == auto_resolve_task_conflict(data, server_data)
        merged == TaskMerged(task, data, auto.resolved_data, user, device)
    IN  IF Incomparable(Get(data, "vector_clock", EmptyClock), task.vector_clock)
        THEN Raised(db, "TypeError")
        ELSE IF detected.has_conflict
        THEN IF auto.auto_resolved
             THEN Returned([db EXCEPT
                                !.tasks[task_id] = merged,
                                !.conflicts = Append(@,
                                    AutoResolvedConflict("task", task_id, data, server_data,
                                        merged.vector_clock, detected.reason,
                                        auto.resolved_data, user, device))],
                           <<>>)
             ELSE LET conflict == ManualConflict("task", task_id, data, server_data,
                                      task.vector_clock, detected.reason,
                                      auto.unresolvable, user, device)
                  IN  Returned([db EXCEPT !.conflicts = Append(@, conflict)], <<conflict>>)
        ELSE Returned([db EXCEPT !.tasks[task_id] = TaskApplied(task, data, user, device)],
                      <<>>)

\* Tombstone.save(): expires_at = created_at + TOMBSTONE_EXPIRY_DAYS (90 days), here
\* in ticks of now.
TombstoneExpiry == 1

\* Tombstone.objects.create(...)
NewTombstone(etype, id, data, user, device) ==
    [organization |-> UserOrg(user),
     vector_clock |-> Get(data, "vector_clock", EmptyClock),
     entity_type |-> etype,
     entity_id |-> id,
     deleted_by |-> user,
     deleted_from_device |-> device,
     created_at |-> now,
     expires_at |-> now + TombstoneExpiry]

_delete_task(db, task_id, data, user, device) ==
    IF ~TaskObjects(db, task_id, UserOrg(user)) THEN Returned(db, <<>>)
    ELSE Returned([db EXCEPT
                      !.tasks[task_id].deleted_at = Stamp,
                      !.tombstones = Append(@, NewTombstone("task", task_id, data, user, device))],
                  <<>>)

----------------------------------------------------------------------------
(* Comment changes of a push: sync/views.py                                *)

CommentSerializer(id, comment) ==
    [user |-> comment.user,
     id |-> id,
     deleted_at |-> comment.deleted_at,
     task |-> comment.task,
     version |-> comment.version,
     vector_clock |-> comment.vector_clock,
     last_modified_by |-> comment.last_modified_by,
     last_modified_device |-> comment.last_modified_device,
     updated_at |-> comment.updated_at,
     content |-> comment.content,
     is_edited |-> comment.is_edited]

\* auto_resolve_comment_conflict(local_data, server_data)
\*   -> (resolved_data, auto_resolved, unresolvable)
auto_resolve_comment_conflict(local_data, server_data) ==
    LET differs == Has(local_data, "content") /\ local_data["content"] # server_data["content"]
    IN  [unresolvable |-> IF differs THEN <<"content">> ELSE <<>>,
         resolved_data |-> [f \in {"content"} |-> server_data["content"]],
         auto_resolved |-> ~differs]

\* The orphan check that opens _create_comment: data.get('task') names a task that
\* is absent from the caller's organization or soft-deleted.
ParentGone(db, data, user) ==
    /\ Has(data, "task")
    /\ ~TaskObjects(db, data["task"], UserOrg(user))

NewCommentRow(data, user, device) ==
    [user |-> user,
     deleted_at |-> NULL,
     task |-> data["task"],
     version |-> Get(data, "version", 1),
     vector_clock |-> Get(data, "vector_clock", EmptyClock),
     last_modified_by |-> user,
     last_modified_device |-> device,
     updated_at |-> now,
     content |-> data["content"],
     is_edited |-> FALSE]

_create_comment(db, data, user, device) ==
    IF ParentGone(db, data, user) THEN Raised(db, "ParentDeletedError")
    ELSE IF ~Has(data, "id") \/ ~Has(data, "task") \/ ~Has(data, "content")
    THEN Raised(db, "KeyError")
    ELSE IF InsertFails(db.comments, data["id"]) THEN Raised(db, "IntegrityError")
    ELSE Returned([db EXCEPT !.comments = Put(db.comments, data["id"],
                                              NewCommentRow(data, user, device))],
                  <<>>)

\* "No conflict, apply changes": the assignments of _update_comment's last block.
CommentApplied(comment, data, user, device) ==
    [comment EXCEPT
        !.content = Get(data, "content", comment.content),
        !.version = Get(data, "version", comment.version),
        !.vector_clock = Get(data, "vector_clock", comment.vector_clock),
        !.last_modified_by = user,
        !.last_modified_device = device,
        !.is_edited = TRUE,
        !.updated_at = now]

\* A variant of the auto_resolved block that stores the payload's clock unmerged.
CommentMergedPayloadClock(comment, data, resolved_data, user, device) ==
    [comment EXCEPT
        !.content = Get(resolved_data, "content", comment.content),
        !.vector_clock = Get(data, "vector_clock", EmptyClock),
        !.version = Max(Get(data, "version", 1), comment.version) + 1,
        !.last_modified_by = user,
        !.last_modified_device = device,
        !.is_edited = TRUE,
        !.updated_at = now]

\* The assignments of _update_comment's auto_resolved block.
CommentMerged(comment, data, resolved_data, user, device) ==
    [comment EXCEPT
        !.content = Get(resolved_data, "content", comment.content),
        !.vector_clock = merge_vector_clocks(Get(data, "vector_clock", EmptyClock),
                                             comment.vector_clock),
        !.version = Max(Get(data, "version", 1), comment.version) + 1,
        !.last_modified_by = user,
        !.last_modified_device = device,
        !.is_edited = TRUE,
        !.updated_at = now]

\* Comment.all_objects.get(id=comment_id): every organization's comments.
_update_comment(db, data, user, device) ==
    IF ~Has(data, "id") THEN Raised(db, "KeyError")
    ELSE IF data["id"] \notin DOMAIN db.comments
    THEN LET created == _create_comment(db, data, user, device)
         IN  [created EXCEPT !.conflict = <<>>]
    ELSE
    LET comment_id == data["id"]
        comment == db.comments[comment_id]
        detected == detect_conflict(data, [vector_clock |-> comment.vector_clock])
        server_data == CommentSerializer(comment_id, comment)
        auto == auto_resolve_comment_conflict(data, server_data)
    IN  IF db.tasks[comment.task].deleted_at # NULL THEN Raised(db, "ParentDeletedError")
        ELSE IF Incomparable(Get(data, "vector_clock", EmptyClock), comment.vector_clock)
        THEN Raised(db, "TypeError")
        ELSE IF detected.has_conflict
        THEN IF auto.auto_resolved
             THEN Returned([db EXCEPT !.comments[comment_id] =
                                CommentMerged(comment, data, auto.resolved_data, user, device)],
                           <<>>)
             ELSE LET conflict == ManualConflict("comment", comment_id, data, server_data,
                                      comment.vector_clock, detected.reason,
                                      auto.unresolvable, user, device)
                  IN  Returned([db EXCEPT !.conflicts = Append(@, conflict)], <<conflict>>)
        ELSE Returned([db EXCEPT !.comments[comment_id] =
                           CommentApplied(comment, data, user, device)],
                      <<>>)

\* Comment.objects.get(id=comment_id): the live comments of every organization.
_delete_comment(db, comment_id, data, user, device) ==
    IF comment_id \notin DOMAIN db.comments \/ db.comments[comment_id].deleted_at # NULL
    THEN Returned(db, <<>>)
    ELSE Returned([db EXCEPT
                      !.comments[comment_id].deleted_at = Stamp,
                      !.tombstones = Append(@, NewTombstone("comment", comment_id, data,
                                                            user, device))],
                  <<>>)

----------------------------------------------------------------------------
(* The two loops of a push and the handler itself: sync/views.py           *)

\* The accumulator of a loop: the tables, the loop's two lists, and whether a
\* failed INSERT has left the enclosing transaction unusable.
Progress(db, conflicts_, processed, aborted) ==
    [conflicts |-> conflicts_, db |-> db, processed |-> processed, aborted |-> aborted]

\* A variant of the bookkeeping below that counts a change that raised a
\* conflict as processed too.
TaskChangeRecordedTwice(acc, change, result) ==
    IF acc.aborted THEN acc
    ELSE IF result.raised = "IntegrityError" THEN [acc EXCEPT !.aborted = TRUE]
    ELSE IF result.raised # "none" THEN acc
    ELSE IF result.conflict # <<>>
    THEN [acc EXCEPT !.db = result.db, !.conflicts = @ \o result.conflict,
                     !.processed = Append(@, change.id)]
    ELSE [acc EXCEPT !.db = result.db, !.processed = Append(@, change.id)]

\* The bookkeeping of one iteration of the loop of _process_task_changes: what
\* the try block and its except clause make of the handler's result.
TaskChangeRecorded(acc, change, result) ==
    IF acc.aborted THEN acc
    ELSE IF result.raised = "IntegrityError" THEN [acc EXCEPT !.aborted = TRUE]
    ELSE IF result.raised # "none" THEN acc
    ELSE IF result.conflict # <<>>
    THEN [acc EXCEPT !.db = result.db, !.conflicts = @ \o result.conflict]
    ELSE [acc EXCEPT !.db = result.db, !.processed = Append(@, change.id)]

\* One iteration of the loop of _process_task_changes.
TaskChangeStep(acc, change, user, device) ==
    TaskChangeRecorded(acc, change,
        CASE change.operation = "create" -> _create_task(acc.db, change.data, user, device)
          [] change.operation = "update" -> _update_task(acc.db, change.data, user, device)
          [] change.operation = "delete" -> _delete_task(acc.db, change.id, change.data,
                                                         user, device)
          [] OTHER -> Raised(acc.db, "skip"))

\* A variant of the loop that takes the changes from the last to the first.
RECURSIVE TaskChangesReversed(_, _, _, _)
TaskChangesReversed(acc, changes, user, device) ==
    IF changes = <<>> THEN acc
    ELSE TaskChangeStep(TaskChangesReversed(acc, Tail(changes), user, device),
                        Head(changes), user, device)

RECURSIVE TaskChangesFrom(_, _, _, _)
TaskChangesFrom(acc, changes, user, device) ==
    IF changes = <<>> THEN acc
    ELSE TaskChangesFrom(TaskChangeStep(acc, Head(changes), user, device),
                         Tail(changes), user, device)

_process_task_changes(db, changes, user, device) ==
    TaskChangesFrom(Progress(db, <<>>, <<>>, FALSE), changes, user, device)

\* The bookkeeping of one iteration of the loop of _process_comment_changes.
CommentChangeRecorded(acc, change, result) ==
    IF acc.aborted THEN acc
    ELSE IF result.raised = "IntegrityError" THEN [acc EXCEPT !.aborted = TRUE]
    ELSE IF result.raised = "ParentDeletedError"
    THEN [acc EXCEPT !.processed = Append(@, change.id)]
    ELSE IF result.raised # "none" THEN acc
    ELSE IF result.conflict # <<>>
    THEN [acc EXCEPT !.db = result.db, !.conflicts = @ \o result.conflict]
    ELSE [acc EXCEPT !.db = result.db, !.processed = Append(@, change.id)]

\* One iteration of the loop of _process_comment_changes.
CommentChangeStep(acc, change, user, device) ==
    CommentChangeRecorded(acc, change,
        CASE change.operation = "create" -> _create_comment(acc.db, change.data, user, device)
          [] change.operation = "update" -> _update_comment(acc.db, change.data, user, device)
          [] change.operation = "delete" -> _delete_comment(acc.db, change.id, change.data,
                                                            user, device)
          [] OTHER -> Raised(acc.db, "skip"))

RECURSIVE CommentChangesFrom(_, _, _, _)
CommentChangesFrom(acc, changes, user, device) ==
    IF changes = <<>> THEN acc
    ELSE CommentChangesFrom(CommentChangeStep(acc, Head(changes), user, device),
                            Tail(changes), user, device)

\* The comments loop runs in the transaction the tasks loop has left.
_process_comment_changes(after_tasks, changes, user, device) ==
    CommentChangesFrom(Progress(after_tasks.db, <<>>, <<>>, after_tasks.aborted),
                       changes, user, device)

_format_conflict(conflict) ==
    [entityType |-> conflict.entity_type,
     entityId |-> conflict.entity_id,
     conflictReason |-> conflict.conflict_reason,
     serverVersion |-> conflict.server_version,
     serverVectorClock |-> conflict.server_vector_clock]

FormatAll(cs) == [i \in 1..Len(cs) |-> _format_conflict(cs[i])]

\* SyncLog.complete: the columns its save(update_fields=...) writes.  The counters
\* entities_pushed, entities_pulled and conflicts_detected are assigned on the Python
\* object only and stay at the defaults of SyncLog.objects.create.
SyncLogRow(status, error_message) ==
    [status |-> status, error_message |-> error_message,
     sync_type |-> "push", entities_pushed |-> 0,
     conflicts_detected |-> 0, completed_at |-> Stamp, entities_pulled |-> 0]

NoRequest == [kind |-> "none"]
NoResponse == [kind |-> "none"]

\* The body and status of a push response.  An error body has none of the three
\* keys: it is written with no conflicts, nothing processed and the empty clock.
PushResponse(status, processed, conflicts_, server_vector_clock) ==
    [conflicts |-> conflicts_, status |-> status, processed |-> processed, serverVectorClock |-> server_vector_clock,
     kind |-> "push"]

\* The vector clocks get_organization_vector_clock reads: those of every task of
\* the organization and of every comment on one, Task.all_objects and
\* Comment.all_objects, soft-deleted rows included.
OrganizationClocks(db, org) ==
    {db.tasks[id].vector_clock : id \in {i \in DOMAIN db.tasks : db.tasks[i].organization = org}}
        \cup {db.comments[id].vector_clock :
                 id \in {i \in DOMAIN db.comments :
                            db.tasks[db.comments[i].task].organization = org}}

RECURSIVE MergeAll(_)
MergeAll(clocks) ==
    IF clocks = {} THEN EmptyClock
    ELSE LET clock == CHOOSE c \in clocks : TRUE
         IN  merge_vector_clocks(MergeAll(clocks \ {clock}), clock)

\* get_organization_vector_clock(organization_id): the merge of those clocks, or
\* the TypeError of max() on a counter that is not a number.
get_organization_vector_clock(db, org) ==
    IF \E clock \in OrganizationClocks(db, org) : Malformed(clock)
    THEN [clock |-> EmptyClock, raised |-> "TypeError"]
    ELSE [clock |-> MergeAll(OrganizationClocks(db, org)), raised |-> "none"]

\* Device.update_vector_clock.  (Device.update_sync_time writes wall-clock columns
\* only, which the model does not carry.)
DeviceSynced(row, client_vector_clock) ==
    [row EXCEPT !.vector_clock = merge_vector_clocks(row.vector_clock, client_vector_clock)]

\* sync_push once the atomic block has committed: the organization clock is read
\* and the response built outside it, and the except clause closes the log as
\* failed over what has been committed.
PushCommitted(devs, request, after_tasks, after_comments, server_vector_clock) ==
    [devices |-> [devs EXCEPT ![request.deviceId] = DeviceSynced(@, request.vectorClock)],
     sync_log |-> IF server_vector_clock.raised = "none"
                  THEN <<SyncLogRow("success", NULL)>>
                  ELSE <<SyncLogRow("failed", server_vector_clock.raised)>>,
     resp |-> IF server_vector_clock.raised = "none"
              THEN PushResponse(200,
                       Len(after_tasks.processed \o after_comments.processed),
                       FormatAll(after_tasks.conflicts \o after_comments.conflicts),
                       server_vector_clock.clock)
              ELSE PushResponse(500, 0, <<>>, EmptyClock),
     db |-> after_comments.db]

\* The end of sync_push, once both loops have run: the device and sync log
\* updates that close the atomic block and the response, or the except clause.
PushCompleted(db, devs, request, after_tasks, after_comments) ==
    IF after_comments.aborted
    THEN [devices |-> devs,
          sync_log |-> <<SyncLogRow("failed", "TransactionManagementError")>>,
          resp |-> PushResponse(500, 0, <<>>, EmptyClock),
          db |-> db]
    ELSE PushCommitted(devs, request, after_tasks, after_comments,
             get_organization_vector_clock(after_comments.db, UserOrg(request.user)))

\* sync_push from the comments loop on.
PushAfterTasks(db, devs, request, after_tasks) ==
    PushCompleted(db, devs, request, after_tasks,
        _process_comment_changes(after_tasks, request.comments, request.user,
                                 request.deviceId))

\* sync_push: the outcome of one request on the tables db, the devices devs and
\* the sync log log.
sync_push(db, devs, log, request) ==
    IF request.deviceId = NotAUUID \/ ~Registered(request.deviceId, request.user)
    THEN [devices |-> devs, sync_log |-> log, resp |-> PushResponse(400, 0, <<>>, EmptyClock),
          db |-> db]
    ELSE PushAfterTasks(db, devs, request,
             _process_task_changes(db, request.tasks, request.user, request.deviceId))

----------------------------------------------------------------------------
(* Pull: sync/views.py                                                     *)

\* The ascending orders of the rows ids by the instant at(id): order_by leaves
\* the order of rows of one instant to the database.
Ascending(ids, at(_)) ==
    {order \in [1..Cardinality(ids) -> ids] :
        /\ \A i, j \in DOMAIN order : i # j => order[i] # order[j]
        /\ \A i, j \in DOMAIN order : i < j => at(order[i]) <= at(order[j])}

\* A variant of the slice below that ignores the limit.
SlicedAll(rows, limit) ==
    rows

\* queryset[:limit], limit >= 0
Sliced(rows, limit) ==
    SubSeq(rows, 1, IF limit < Len(rows) THEN limit ELSE Len(rows))

\* A variant of the query below without its exclusion of the pulling device.
PullTaskIdsOwn(db, org, device, since) ==
    {id \in DOMAIN db.tasks :
        /\ db.tasks[id].organization = org
        /\ db.tasks[id].updated_at > since}

\* The tasks the pull query matches: Task.all_objects of the organization, updated
\* after since, not last modified by the pulling device.
PullTaskIds(db, org, device, since) ==
    {id \in DOMAIN db.tasks :
        /\ db.tasks[id].organization = org
        /\ db.tasks[id].updated_at > since
        /\ db.tasks[id].last_modified_device # device}

PullCommentIds(db, org, device, since) ==
    {id \in DOMAIN db.comments :
        /\ db.tasks[db.comments[id].task].organization = org
        /\ db.comments[id].updated_at > since
        /\ db.comments[id].last_modified_device # device}

\* A variant of the query below without its expiry filter.
PullTombstoneIdsUnexpired(db, org, device, since) ==
    {i \in DOMAIN db.tombstones :
        /\ db.tombstones[i].organization = org
        /\ db.tombstones[i].created_at > since
        /\ db.tombstones[i].deleted_from_device # device}

\* The tombstones the pull query matches, by their place in the table.
PullTombstoneIds(db, org, device, since) ==
    {i \in DOMAIN db.tombstones :
        /\ db.tombstones[i].organization = org
        /\ db.tombstones[i].created_at > since
        /\ db.tombstones[i].expires_at > now
        /\ db.tombstones[i].deleted_from_device # device}

_format_tombstone(id, tombstone) ==
    [id |-> id,
     vector_clock |-> tombstone.vector_clock,
     entity_type |-> tombstone.entity_type,
     entity_id |-> tombstone.entity_id,
     deleted_by |-> tombstone.deleted_by,
     deleted_from_device |-> tombstone.deleted_from_device,
     created_at |-> tombstone.created_at,
     expires_at |-> tombstone.expires_at]

PullRequest(user, deviceId, since, limit) ==
    [deviceId |-> deviceId, user |-> user, kind |-> "pull", limit |-> limit, since |-> since]

\* The body and status of a pull response; an error body carries no rows.
PullResponse(status, task_rows, comment_rows, tombstone_rows, server_vector_clock, hasMore) ==
    [tasks |-> task_rows, comments |-> comment_rows, tombstones |-> tombstone_rows,
     status |-> status, serverVectorClock |-> server_vector_clock, kind |-> "pull",
     hasMore |-> hasMore]

PullFailed(status) == PullResponse(status, <<>>, <<>>, <<>>, EmptyClock, FALSE)

\* SyncLog.complete of a pull: entities_pulled is assigned on the Python object only.
PullLogRow(status, error_message) ==
    [SyncLogRow(status, error_message) EXCEPT !.sync_type = "pull"]

\* The try block of sync_pull over the three sliced querysets, in the orders the
\* database returned them.
PullAnswered(db, request, task_ids, comment_ids, tombstone_ids, server_vector_clock) ==
    IF server_vector_clock.raised # "none"
    THEN [sync_log |-> <<PullLogRow("failed", server_vector_clock.raised)>>,
          resp |-> PullFailed(500)]
    ELSE [sync_log |-> <<PullLogRow("success", NULL)>>,
          resp |-> PullResponse(200,
                       [i \in DOMAIN task_ids |->
                           TaskSerializer(task_ids[i], db.tasks[task_ids[i]])],
                       [i \in DOMAIN comment_ids |->
                           CommentSerializer(comment_ids[i], db.comments[comment_ids[i]])],
                       [i \in DOMAIN tombstone_ids |->
                           _format_tombstone(tombstone_ids[i], db.tombstones[tombstone_ids[i]])],
                       server_vector_clock.clock,
                       Len(task_ids) = request.limit \/ Len(comment_ids) = request.limit)]

\* sync_pull: the outcome of one request on the tables db, given the orders in
\* which the database returns the matching rows.  The device id is the header
\* X-Device-ID as sent: Device.objects.get raises ValidationError, which the
\* except clause for Device.DoesNotExist does not catch, when it is not the text of
\* a UUID.  A negative limit makes the slice raise ("Negative indexing is not
\* supported").
sync_pull(db, log, request, task_order, comment_order, tombstone_order) ==
    IF request.deviceId = NotAUUID
    THEN [sync_log |-> log, resp |-> PullFailed(500)]
    ELSE IF ~Registered(request.deviceId, request.user)
    THEN [sync_log |-> log, resp |-> PullFailed(400)]
    ELSE IF request.limit < 0
    THEN [sync_log |-> <<PullLogRow("failed", "ValueError")>>, resp |-> PullFailed(500)]
    ELSE PullAnswered(db, request,
             Sliced(task_order, request.limit),
             Sliced(comment_order, request.limit),
             Sliced(tombstone_order, request.limit),
             get_organization_vector_clock(db, UserOrg(request.user)))

----------------------------------------------------------------------------
(* Conflicts: ConflictViewSet of sync/views.py                             *)

\* ConflictViewSet.get_queryset: its body reads user=request.user, and the name
\* request is bound neither in the method (its only parameter is self) nor in the
\* module: evaluating it raises NameError before any row is selected.
get_queryset(db, user) == [raised |-> "NameError", ids |-> {}]

\* GET /api/sync/conflicts/
ListRequest(user) == [user |-> user, kind |-> "conflicts"]

\* POST /api/sync/conflicts/<pk>/resolve/; pk is the position of the row in the
\* table, customResolution a sequence of at most one payload.
ResolveRequest(user, pk, resolution, customResolution) ==
    [user |-> user, kind |-> "resolve", pk |-> pk, resolution |-> resolution,
     customResolution |-> customResolution]

ListResponse(status, rows) == [status |-> status, kind |-> "conflicts", rows |-> rows]

ResolveResponse(status, resolvedEntity) ==
    [status |-> status, kind |-> "resolve", resolvedEntity |-> resolvedEntity]

\* ConflictViewSet.list: ListModelMixin.list filters self.get_queryset(); the
\* exception is not an APIException and ends the request with status 500.
conflict_list(db, request) ==
    IF get_queryset(db, request.user).raised # "none"
    THEN [resp |-> ListResponse(500, <<>>), db |-> db]
    ELSE [resp |-> ListResponse(200, [i \in get_queryset(db, request.user).ids |->
                                         db.conflicts[i]]),
          db |-> db]

\* ConflictViewSet.resolve: its first statement, self.get_object(), evaluates
\* self.get_queryset(); none of the statements after it is reached, so neither
\* Conflict.resolve nor _apply_task_resolution or _apply_comment_resolution runs.
resolve(db, request) ==
    [resp |-> ResolveResponse(500, <<>>), db |-> db]

----------------------------------------------------------------------------
(* Throttling: SyncPushThrottle, SyncPullThrottle and                      *)
(* ConflictResolutionThrottle are SimpleRateThrottle with a scope and the  *)
(* cache key (scope, user).  The rates of the scopes are settings.         *)

\* The rate of every scope: ThrottleRate requests in ThrottleDuration ticks.
ThrottleRate == 2
ThrottleDuration == 1

\* get_cache_key for an authenticated user.
get_cache_key(scope, user) == <<scope, user>>

\* The instants of history that are still inside the window at the instant at.
Recent(history, at) == SelectSeq(history, LAMBDA t : t > at - ThrottleDuration)

\* A variant of the function below that never drops an instant from the history.
AllowUnpruned(history, at) ==
    IF Len(history) >= ThrottleRate
    THEN [history |-> history, allowed |-> FALSE]
    ELSE [history |-> <<at>> \o history, allowed |-> TRUE]

\* SimpleRateThrottle.allow_request at the instant at: the instants that have
\* left the window are dropped; with ThrottleRate instants left the request is
\* refused and the cache is not written, otherwise the instant is added.
allow_request(history, at) ==
    IF Len(Recent(history, at)) >= ThrottleRate
    THEN [history |-> history, allowed |-> FALSE]
    ELSE [history |-> <<at>> \o Recent(history, at), allowed |-> TRUE]

\* The scope of the view a request is sent to.
Scope(request) ==
    CASE request.kind = "push" -> "sync_push"
      [] request.kind = "pull" -> "sync_pull"
      [] OTHER -> "conflict_resolution"

\* The response Throttled: 429 TOO MANY REQUESTS.
TooManyRequests(kind) == [status |-> 429, kind |-> kind]

----------------------------------------------------------------------------
(* Requests                                                                *)

MaxVersion == 3
MaxConflicts == 1

TaskIds == {"t1"}
CommentIds == {"c1"}

\* A payload: the keys a client chose to send, of those the model carries.  Every
\* payload is taken to carry created_at, without which a create fails on the
\* NOT NULL column.
Titles == {"A", "B"}
Statuses == {"todo", "done"}
Contents == {"x", "y"}
PayloadVersions == 1..2
CommentVersions == {2}
CommentClocks == {[dA |-> 1], [dB |-> 1]}
NoKey == <<>>
Key(v) == <<v>>
Options(S) == {NoKey} \cup {Key(v) : v \in S}

Payload(fields) ==
    [k \in {f \in DOMAIN fields : fields[f] # NoKey} |-> fields[k][1]]

TaskData ==
    {Payload([id |-> Key(id), status |-> st, title |-> ti, version |-> ve, vector_clock |-> vc]) :
        id \in TaskIds, ti \in Options(Titles), st \in Options(Statuses),
        ve \in Options(PayloadVersions), vc \in Options(Clocks \ {EmptyClock})}

CommentData ==
    {Payload([id |-> Key(id), task |-> ta, version |-> ve, vector_clock |-> vc, content |-> co]) :
        id \in CommentIds, ta \in Options(TaskIds), co \in Options(Contents),
        ve \in Options(CommentVersions), vc \in Options(CommentClocks)}

Change(operation, data) == [id |-> data["id"], data |-> data, operation |-> operation]

\* A delete carries its id and the clock of the deletion.
DeleteClocks == {EmptyClock, [dA |-> 1]}
DeleteData(D) ==
    {d \in D : /\ DOMAIN d \subseteq {"id", "vector_clock"}
               /\ Get(d, "vector_clock", EmptyClock) \in DeleteClocks}

ChangesOver(D) ==
    {Change(op, d) : op \in {"create", "update"}, d \in D}
        \cup {Change("delete", d) : d \in DeleteData(D)}

PushRequest(user, deviceId, vectorClock, task_changes, comment_changes) ==
    [tasks |-> task_changes, comments |-> comment_changes, deviceId |-> deviceId, user |-> user,
     kind |-> "push", vectorClock |-> vectorClock]

----------------------------------------------------------------------------
(* The state machine                                                       *)

Current == Database(tasks, comments, tombstones, conflicts)

\* The scopes of SyncPushThrottle, SyncPullThrottle and ConflictResolutionThrottle.
Scopes == {"sync_push", "sync_pull", "conflict_resolution"}

\* No push of the device is between its reads and its commit.
NotReading ==
    [request |-> NoRequest,
     found |-> Database(<<>>, <<>>, <<>>, <<>>),
     before |-> Database(<<>>, <<>>, <<>>, <<>>),
     after |-> Database(<<>>, <<>>, <<>>, <<>>),
     written |-> TRUE]

Init ==
    /\ tasks = <<>>
    /\ comments = <<>>
    /\ tombstones = <<>>
    /\ conflicts = <<>>
    /\ devices = [d \in Devices \cup InactiveDevices |-> [vector_clock |-> EmptyClock]]
    /\ sync_log = <<>>
    /\ req = NoRequest
    /\ pre = Database(<<>>, <<>>, <<>>, <<>>)
    /\ resp = NoResponse
    /\ now = 0
    /\ task_history = <<>>
    /\ last_push = NoRequest
    /\ reading = [d \in Devices |-> NotReading]
    /\ cache = [key \in Scopes \X Users |-> <<>>]

WithinBounds(db) ==
    /\ \A id \in DOMAIN db.tasks : db.tasks[id].version <= MaxVersion
    /\ \A id \in DOMAIN db.comments : db.comments[id].version <= MaxVersion

\* The tables, the request and the response a request and its outcome leave.
Outcome(request, out) ==
    /\ WithinBounds(out.db)
    /\ req' = request
    /\ pre' = Current
    /\ tasks' = out.db.tasks
    /\ comments' = out.db.comments
    /\ tombstones' = out.db.tombstones
    /\ conflicts' = out.db.conflicts
    /\ devices' = out.devices
    /\ sync_log' = out.sync_log
    /\ resp' = out.resp

\* The state a request and its outcome leave.
Answered(request, out) ==
    /\ Outcome(request, out)
    /\ UNCHANGED <<now, last_push, reading, cache, task_history>>

\* POST /api/sync/push/ with the body request: the whole handler.
Push(request) ==
    /\ resp = NoResponse
    /\ Len(conflicts) < MaxConflicts
    /\ Answered(request, sync_push(Current, devices, sync_log, request))

\* The client reads the response; the server is idle again.
Deliver ==
    /\ resp # NoResponse
    /\ req' = NoRequest
    /\ resp' = NoResponse
    /\ pre' = Current
    /\ UNCHANGED <<tasks, comments, tombstones, conflicts, devices, sync_log, now, last_push,
                   reading, cache, task_history>>

RequestClocks == {EmptyClock}

Caller(u, d) == [deviceId |-> d, user |-> u]

\* A few changes of task t1: its creation, a concurrent retitling, its deletion.
ParentChanges ==
    {Change("create", [id |-> "t1", title |-> "A", vector_clock |-> [dA |-> 1]]),
     Change("update", [id |-> "t1", title |-> "B", vector_clock |-> [dB |-> 1]]),
     Change("delete", [id |-> "t1"])}

\* Two devices of one user push one task change each time.
TaskCallers == {Caller("u1", "dA"), Caller("u1", "dB")}

SyncPush ==
    \E caller \in TaskCallers, vectorClock \in RequestClocks, change \in ChangesOver(TaskData) :
        Push(PushRequest(caller.user, caller.deviceId, vectorClock, <<change>>, <<>>))

\* A user pushes under the id of a device registered to another user.
SyncPushInvalidDevice ==
    \E caller \in {Caller("u2", "dA")}, vectorClock \in RequestClocks, change \in ParentChanges :
        Push(PushRequest(caller.user, caller.deviceId, vectorClock, <<change>>, <<>>))

Next == SyncPush \/ SyncPushInvalidDevice \/ Deliver

Spec == Init /\ [][Next]_vars

\* Users of two organizations push one comment change each time, or one of the
\* few changes of the parent task.
CommentCallers == {Caller("u1", "dA"), Caller("u2", "dC")}

SyncPushComment ==
    \E caller \in CommentCallers, vectorClock \in RequestClocks,
       change \in ChangesOver(CommentData) :
        Push(PushRequest(caller.user, caller.deviceId, vectorClock, <<>>, <<change>>))

SyncPushParent ==
    \E caller \in CommentCallers, vectorClock \in RequestClocks, change \in ParentChanges :
        Push(PushRequest(caller.user, caller.deviceId, vectorClock, <<change>>, <<>>))

NextC == SyncPushComment \/ SyncPushParent \/ Deliver

SpecC == Init /\ [][NextC]_vars

----------------------------------------------------------------------------
(* Pushes, pulls and the passing of time.                                  *)

MaxTime == 2

Tick ==
    /\ resp = NoResponse
    /\ now < MaxTime
    /\ now' = now + 1
    /\ UNCHANGED <<tasks, comments, tombstones, conflicts, devices, sync_log, req, pre, resp,
                   last_push, reading, cache, task_history>>

\* A push that is remembered as the latest one.
Recorded(request, out) ==
    /\ Outcome(request, out)
    /\ last_push' = [request |-> request, at |-> now, before |-> Current, response |-> out.resp]
    /\ UNCHANGED <<now, reading, cache, task_history>>

PushRecorded(request) ==
    /\ resp = NoResponse
    /\ Len(conflicts) < MaxConflicts
    /\ Recorded(request, sync_push(Current, devices, sync_log, request))

\* A variant of the operator below in which the pull stores the clock it answers
\* on the calling device, the way a push stores the clock it is sent.
PulledDeviceSynced(request, out) ==
    /\ req' = request
    /\ pre' = Current
    /\ resp' = out.resp
    /\ sync_log' = out.sync_log
    /\ devices' = IF request.deviceId \in DOMAIN devices
                  THEN [devices EXCEPT ![request.deviceId] =
                                           DeviceSynced(@, out.resp.serverVectorClock)]
                  ELSE devices
    /\ UNCHANGED <<tasks, comments, tombstones, conflicts, now, last_push, reading, cache,
                   task_history>>

\* The state a pull and its outcome leave: it writes its SyncLog row only.
Pulled(request, out) ==
    /\ req' = request
    /\ pre' = Current
    /\ resp' = out.resp
    /\ sync_log' = out.sync_log
    /\ UNCHANGED <<tasks, comments, tombstones, conflicts, devices, now, last_push, reading, cache,
                   task_history>>

\* GET /api/sync/pull/?since=&limit= with the header X-Device-ID: the whole handler.
Pull(request) ==
    /\ resp = NoResponse
    /\ \E task_order \in Ascending(PullTaskIds(Current, UserOrg(request.user),
                                                request.deviceId, request.since),
                                    LAMBDA id : tasks[id].updated_at),
          comment_order \in Ascending(PullCommentIds(Current, UserOrg(request.user),
                                                     request.deviceId, request.since),
                                       LAMBDA id : comments[id].updated_at),
          tombstone_order \in Ascending(PullTombstoneIds(Current, UserOrg(request.user),
                                                         request.deviceId, request.since),
                                         LAMBDA i : tombstones[i].created_at) :
          Pulled(request, sync_pull(Current, sync_log, request,
                                    task_order, comment_order, tombstone_order))

\* The changes pushed here: two tasks, a newer update of the first, its
\* deletion, and a comment on it.
PullChanges ==
    [tasks |->
        {Change("create", [id |-> "t1", title |-> "A", vector_clock |-> [dA |-> 1]]),
         Change("create", [id |-> "t2", title |-> "A", vector_clock |-> [dB |-> 1]]),
         Change("update", [id |-> "t1", title |-> "B", vector_clock |-> [dA |-> 1, dB |-> 1]]),
         Change("delete", [id |-> "t1"])},
     comments |->
        {Change("create", [id |-> "c1", task |-> "t1", vector_clock |-> [dA |-> 1],
                           content |-> "x"])}]

\* What a user of the other organization pushes: a task of theirs and its deletion.
ForeignChanges ==
    {Change("create", [id |-> "t2", title |-> "A", vector_clock |-> [dB |-> 1]]),
     Change("delete", [id |-> "t2"])}

PullCallers == {Caller("u1", "dA"), Caller("u1", "dB"), Caller("u2", "dC")}

Sinces == 0..(MaxTime - 1)
Limits == 1..2

SyncPushTask ==
    \E caller \in TaskCallers, vectorClock \in RequestClocks, change \in PullChanges.tasks :
        Push(PushRequest(caller.user, caller.deviceId, vectorClock, <<change>>, <<>>))

SyncPushTaskComment ==
    \E caller \in {Caller("u1", "dB")}, vectorClock \in RequestClocks,
       change \in PullChanges.comments :
        Push(PushRequest(caller.user, caller.deviceId, vectorClock, <<>>, <<change>>))

SyncPushForeign ==
    \E caller \in {Caller("u2", "dC")}, vectorClock \in RequestClocks, change \in ForeignChanges :
        Push(PushRequest(caller.user, caller.deviceId, vectorClock, <<change>>, <<>>))

SyncPull ==
    \E caller \in PullCallers, since \in Sinces, limit \in Limits :
        Pull(PullRequest(caller.user, caller.deviceId, since, limit))

\* A user pulls under the id of a device registered to another user, or with a
\* negative limit.
SyncPullRejected ==
    \E request \in {PullRequest("u2", "dA", 0, 1), PullRequest("u1", "dA", 0, -1)} :
        Pull(request)

NextP == SyncPushTask \/ SyncPushTaskComment \/ SyncPushForeign \/ SyncPull
             \/ SyncPullRejected \/ Tick \/ Deliver

SpecP == Init /\ [][NextP]_vars

\* Two devices of one user push and pull in turn; each push is remembered.
RoundTripChanges ==
    [tasks |->
        {Change("create", [id |-> "t1", title |-> "A", vector_clock |-> [dA |-> 1]]),
         Change("update", [id |-> "t1", title |-> "B", vector_clock |-> [dA |-> 1, dB |-> 1]]),
         Change("update", [id |-> "t1", title |-> "B", vector_clock |-> [dB |-> 1]]),
         Change("delete", [id |-> "t1"])},
     comments |->
        {Change("create", [id |-> "c1", task |-> "t1", vector_clock |-> [dA |-> 1],
                           content |-> "x"])}]

SyncPushRecorded ==
    \E caller \in TaskCallers, vectorClock \in RequestClocks, change \in RoundTripChanges.tasks :
        PushRecorded(PushRequest(caller.user, caller.deviceId, vectorClock, <<change>>, <<>>))

SyncPushCommentRecorded ==
    \E caller \in TaskCallers, vectorClock \in RequestClocks,
       change \in RoundTripChanges.comments :
        PushRecorded(PushRequest(caller.user, caller.deviceId, vectorClock, <<>>, <<change>>))

SyncPullAfter ==
    \E caller \in TaskCallers, since \in Sinces, limit \in Limits :
        Pull(PullRequest(caller.user, caller.deviceId, since, limit))

NextT == SyncPushRecorded \/ SyncPushCommentRecorded \/ SyncPullAfter \/ Tick \/ Deliver

SpecT == Init /\ [][NextT]_vars

----------------------------------------------------------------------------
(* Pushes in flight together.  sync_push runs in transaction.atomic() with *)
(* the isolation level of the connection, READ COMMITTED, and reads its    *)
(* rows with Task.all_objects.get, without select_for_update: a push reads *)
(* the committed rows, and what it then computes from them is written over *)
(* whatever has been committed in between, since save() is an UPDATE of    *)
(* every column by primary key.                                            *)

\* The tables once a push that read the tables found, and computed the tables
\* written from them, has committed over the tables db: the rows it saved replace
\* the stored ones, the rows it created are appended.
Overwritten(db, found, written) ==
    Database([id \in DOMAIN db.tasks |->
                 IF id \in DOMAIN found.tasks /\ written.tasks[id] # found.tasks[id]
                 THEN written.tasks[id] ELSE db.tasks[id]],
             [id \in DOMAIN db.comments |->
                 IF id \in DOMAIN found.comments /\ written.comments[id] # found.comments[id]
                 THEN written.comments[id] ELSE db.comments[id]],
             db.tombstones \o SubSeq(written.tombstones, Len(found.tombstones) + 1,
                                     Len(written.tombstones)),
             db.conflicts \o SubSeq(written.conflicts, Len(found.conflicts) + 1,
                                    Len(written.conflicts)))

\* sync_push up to its reads: the push of request has read the rows it is about.
Read(request) ==
    /\ reading[request.deviceId].written
    /\ \A i \in DOMAIN request.tasks : request.tasks[i].id \in DOMAIN tasks
    /\ reading' = [reading EXCEPT ![request.deviceId] =
                      [request |-> request, found |-> Current, before |-> Current,
                       after |-> Current, written |-> FALSE]]
    /\ UNCHANGED <<tasks, comments, tombstones, conflicts, devices, sync_log, req, pre, resp,
                   now, last_push, cache, task_history>>

\* The state the push entry of device leaves when it commits the outcome out over
\* the tables as they are, leaving the tables after.
WroteOver(device, entry, out, after) ==
    /\ WithinBounds(after)
    /\ req' = entry.request
    /\ pre' = Current
    /\ tasks' = after.tasks
    /\ comments' = after.comments
    /\ tombstones' = after.tombstones
    /\ conflicts' = after.conflicts
    /\ devices' = out.devices
    /\ sync_log' = out.sync_log
    /\ resp' = IF out.resp.status = 200
               THEN [out.resp EXCEPT !.serverVectorClock =
                        get_organization_vector_clock(after, UserOrg(entry.request.user)).clock]
               ELSE out.resp
    /\ reading' = [reading EXCEPT ![device] =
                      [entry EXCEPT !.before = Current, !.after = after, !.written = TRUE]]
    /\ UNCHANGED <<now, last_push, cache, task_history>>

Committed(device, entry, out) ==
    WroteOver(device, entry, out, Overwritten(Current, entry.found, out.db))

\* sync_push from its reads on: the push of device writes and commits.
Commit(device) ==
    /\ resp = NoResponse
    /\ Len(conflicts) < MaxConflicts
    /\ ~reading[device].written
    /\ Committed(device, reading[device],
                 sync_push(reading[device].found, devices, sync_log, reading[device].request))

\* Task t1 is created; two devices then retitle it or change its status, each
\* with a clock that follows the stored one and is concurrent with the other's.
StoredChanges ==
    {Change("create", [id |-> "t1", title |-> "A"])}

RacingChanges ==
    {Change("update", [id |-> "t1", title |-> "B", vector_clock |-> [dA |-> 1]]),
     Change("update", [id |-> "t1", status |-> "done", vector_clock |-> [dB |-> 1]]),
     Change("update", [id |-> "t1", title |-> "C", vector_clock |-> [dB |-> 1]])}

SyncPushStored ==
    \E caller \in TaskCallers, vectorClock \in RequestClocks, change \in StoredChanges :
        Push(PushRequest(caller.user, caller.deviceId, vectorClock, <<change>>, <<>>))

SyncPushRead ==
    \E caller \in TaskCallers, vectorClock \in RequestClocks, change \in RacingChanges :
        Read(PushRequest(caller.user, caller.deviceId, vectorClock, <<change>>, <<>>))

SyncPushCommit ==
    \E device \in {"dA", "dB"} : Commit(device)

NextR == SyncPushStored \/ SyncPushRead \/ SyncPushCommit \/ Deliver

SpecR == Init /\ [][NextR]_vars

----------------------------------------------------------------------------
(* Pushes that fail.  The data of a change is a JSONField that no          *)
(* serializer looks into: a vector_clock in it may map a device to         *)
(* anything, such as a string.                                             *)

FailingChanges ==
    {Change("create", [id |-> "t1", title |-> "A", vector_clock |-> [dA |-> 1]]),
     Change("create", [id |-> "t2", title |-> "A", vector_clock |-> [dA |-> NotANumber]]),
     Change("create", [id |-> "t2", title |-> "B", vector_clock |-> [dB |-> 1]]),
     Change("update", [id |-> "t1", title |-> "B", vector_clock |-> [dA |-> 1, dB |-> 1]]),
     Change("update", [id |-> "t2", title |-> "B", vector_clock |-> [dA |-> 1, dB |-> 1]]),
     Change("delete", [id |-> "t1"]),
     Change("delete", [id |-> "t2"])}

SyncPushFailing ==
    \E caller \in TaskCallers, vectorClock \in {EmptyClock, [dA |-> 1]},
       change \in FailingChanges :
        Push(PushRequest(caller.user, caller.deviceId, vectorClock, <<change>>, <<>>))

NextE == SyncPushFailing \/ Deliver

SpecE == Init /\ [][NextE]_vars

----------------------------------------------------------------------------
(* Pushes of several changes: two task changes, which may be about the     *)
(* same task, and at most one comment change.                              *)

SeveralChanges ==
    [tasks |->
        {Change("create", [id |-> "t1", title |-> "A", vector_clock |-> [dA |-> 1]]),
         Change("update", [id |-> "t1", title |-> "B", vector_clock |-> [dB |-> 1]]),
         Change("update", [id |-> "t1", status |-> "done", vector_clock |-> [dB |-> 1]]),
         Change("update", [id |-> "t1", title |-> "B", vector_clock |-> [dA |-> 1, dB |-> 1]]),
         Change("update", [id |-> "t1", title |-> "A", vector_clock |-> [dA |-> NotANumber]]),
         Change("delete", [id |-> "t1"])},
     comments |->
        {Change("create", [id |-> "c1", task |-> "t1", vector_clock |-> [dA |-> 1],
                           content |-> "x"]),
         Change("update", [id |-> "c1", task |-> "t1", vector_clock |-> [dB |-> 1],
                           content |-> "y"]),
         Change("delete", [id |-> "c1"])}]

SyncPushSeveral ==
    \E caller \in TaskCallers, vectorClock \in RequestClocks,
       first \in SeveralChanges.tasks, second \in SeveralChanges.tasks :
        Push(PushRequest(caller.user, caller.deviceId, vectorClock, <<first, second>>, <<>>))

SyncPushSeveralComment ==
    \E caller \in TaskCallers, vectorClock \in RequestClocks,
       first \in SeveralChanges.tasks, second \in SeveralChanges.tasks,
       third \in SeveralChanges.comments :
        Push(PushRequest(caller.user, caller.deviceId, vectorClock, <<first, second>>,
                         <<third>>))

NextM == SyncPushSeveral \/ SyncPushSeveralComment \/ Deliver

SpecM == Init /\ [][NextM]_vars

----------------------------------------------------------------------------
(* Pushes of task changes that carry a due date: one instant written with  *)
(* the offset of the device and written in UTC.                            *)

DueChanges ==
    {Change("create", [id |-> "t1", due_date |-> "2026-03-10T05:00:00+05:00", title |-> "A",
                       vector_clock |-> [dA |-> 1]]),
     Change("create", [id |-> "t1", due_date |-> "2026-03-10T00:00:00Z", title |-> "A",
                       vector_clock |-> [dA |-> 1]]),
     Change("create", [id |-> "t1", title |-> "A", vector_clock |-> [dA |-> 1]]),
     Change("update", [id |-> "t1", due_date |-> "2026-03-10T05:00:00+05:00", title |-> "B",
                       vector_clock |-> [dA |-> 1, dB |-> 1]]),
     Change("update", [id |-> "t1", status |-> "done", vector_clock |-> [dA |-> 2]]),
     Change("update", [id |-> "t1", due_date |-> "2026-03-10T05:00:00+05:00", status |-> "done",
                       vector_clock |-> [dB |-> 1]]),
     Change("update", [id |-> "t1", title |-> "B", vector_clock |-> [dB |-> 1]]),
     Change("delete", [id |-> "t1"])}

SyncPushDue ==
    \E caller \in TaskCallers, vectorClock \in RequestClocks, change \in DueChanges :
        Push(PushRequest(caller.user, caller.deviceId, vectorClock, <<change>>, <<>>))

NextK == SyncPushDue \/ Deliver

SpecK == Init /\ [][NextK]_vars

----------------------------------------------------------------------------
(* The CRUD endpoints of tasks beside the pushes: tasks/views.py.  Each    *)
(* writes a row of task_history; the push handlers write none.             *)

\* TaskHistory.objects.create(task=..., user=..., device=..., change_type=...).
TaskHistoryRow(task_id, task, user, device, change_type) ==
    [user |-> user,
     task |-> task_id,
     vector_clock |-> task.vector_clock,
     device |-> device,
     change_type |-> change_type]

CrudRequest(method, user, deviceId, id, data) ==
    [deviceId |-> deviceId, user |-> user, id |-> id, data |-> data, kind |-> "crud",
     method |-> method]

CrudResponse(status) == [status |-> status, kind |-> "crud"]

\* Task.increment_vector_clock.
TaskClockIncremented(vector_clock, device_id) ==
    Put(Coerced(vector_clock), device_id, Get(Coerced(vector_clock), device_id, 0) + 1)

\* TaskSerializer.update with the header X-Device-ID of a device of the user.
TaskUpdated(task, validated_data, user, device) ==
    Saved([task EXCEPT
              !.vector_clock = TaskClockIncremented(@, device),
              !.last_modified_device = device,
              !.version = @ + 1,
              !.last_modified_by = user,
              !.title = Get(validated_data, "title", @),
              !.status = Get(validated_data, "status", @),
              !.updated_at = now],
          TRUE)

\* The state a CRUD request leaves: the task table, the history and the answer.
CrudAnswered(request, tasks_, history, status) ==
    /\ resp = NoResponse
    /\ \A id \in DOMAIN tasks_ : tasks_[id].version <= MaxVersion
    /\ req' = request
    /\ pre' = Current
    /\ tasks' = tasks_
    /\ task_history' = history
    /\ resp' = CrudResponse(status)
    /\ UNCHANGED <<comments, tombstones, conflicts, devices, sync_log, now, last_push, reading,
                   cache>>

\* PATCH /api/tasks/{id}/: get_object over Task.objects of the organization,
\* perform_update.
TaskUpdate(user, deviceId, id, data) ==
    LET request == CrudRequest("PATCH", user, deviceId, id, data)
        task == TaskUpdated(tasks[id], data, user, deviceId)
    IN  IF ~TaskObjects(Current, id, UserOrg(user))
        THEN CrudAnswered(request, tasks, task_history, 404)
        ELSE CrudAnswered(request, [tasks EXCEPT ![id] = task],
                          Append(task_history,
                                 TaskHistoryRow(id, task, user, deviceId, "updated")),
                          200)

\* DELETE /api/tasks/{id}/: perform_destroy.
TaskDestroy(user, deviceId, id) ==
    LET request == CrudRequest("DELETE", user, deviceId, id, <<>>)
    IN  IF ~TaskObjects(Current, id, UserOrg(user))
        THEN CrudAnswered(request, tasks, task_history, 404)
        ELSE CrudAnswered(request, [tasks EXCEPT ![id].deleted_at = Stamp],
                          Append(task_history,
                                 TaskHistoryRow(id, tasks[id], user, deviceId, "deleted")),
                          204)

\* POST /api/tasks/{id}/restore/: get_object is over Task.objects, which hides
\* the soft-deleted rows.
TaskRestore(user, deviceId, id) ==
    LET request == CrudRequest("POST", user, deviceId, id, <<>>)
    IN  IF ~TaskObjects(Current, id, UserOrg(user))
        THEN CrudAnswered(request, tasks, task_history, 404)
        ELSE CrudAnswered(request, [tasks EXCEPT ![id].deleted_at = NULL],
                          Append(task_history,
                                 TaskHistoryRow(id, tasks[id], user, deviceId, "restored")),
                          200)

MaxHistory == 2

CrudData == {[title |-> "B"], [status |-> "done"]}

CrudUpdate ==
    \E caller \in TaskCallers, id \in TaskIds, data \in CrudData :
        /\ Len(task_history) < MaxHistory
        /\ TaskUpdate(caller.user, caller.deviceId, id, data)

CrudDestroy ==
    \E caller \in TaskCallers, id \in TaskIds :
        /\ Len(task_history) < MaxHistory
        /\ TaskDestroy(caller.user, caller.deviceId, id)

CrudRestore ==
    \E caller \in TaskCallers, id \in TaskIds :
        /\ Len(task_history) < MaxHistory
        /\ TaskRestore(caller.user, caller.deviceId, id)

NextH == SyncPushDue \/ CrudUpdate \/ CrudDestroy \/ CrudRestore \/ Deliver

SpecH == Init /\ [][NextH]_vars

----------------------------------------------------------------------------
(* Tombstones from their creation to their removal: deletions pushed by    *)
(* one device, pulls by both, the cleanup job and the passing of time.     *)

\* A variant of the query of the job below that also takes the tombstones
\* expiring at this instant.
cleanup_expiring(rows, at) ==
    [kept |-> SelectSeq(rows, LAMBDA row : ~(row.expires_at <= at)),
     deleted_count |-> Len(SelectSeq(rows, LAMBDA row : row.expires_at <= at))]

\* Tombstone.cleanup_expired: cls.objects.filter(expires_at__lt=now).delete().
cleanup_expired(rows, at) ==
    [kept |-> SelectSeq(rows, LAMBDA row : ~(row.expires_at < at)),
     deleted_count |-> Len(SelectSeq(rows, LAMBDA row : row.expires_at < at))]

CleanupRequest == [kind |-> "cleanup"]

\* What the task cleanup_expired_tombstones returns.
CleanupResult(deleted_count) ==
    [status |-> "success", kind |-> "cleanup", deleted_count |-> deleted_count]

\* The periodic task cleanup_expired_tombstones, between two requests.
CleanupExpiredTombstones ==
    /\ resp = NoResponse
    /\ req' = CleanupRequest
    /\ pre' = Current
    /\ tombstones' = cleanup_expired(tombstones, now).kept
    /\ resp' = CleanupResult(cleanup_expired(tombstones, now).deleted_count)
    /\ UNCHANGED <<tasks, comments, conflicts, devices, sync_log, now, last_push, reading, cache,
                   task_history>>

ExpiringChanges ==
    {Change("create", [id |-> "t1", title |-> "A", vector_clock |-> [dA |-> 1]]),
     Change("create", [id |-> "t2", title |-> "A", vector_clock |-> [dA |-> 1]]),
     Change("delete", [id |-> "t1"]),
     Change("delete", [id |-> "t2"])}

\* The cutoffs of the pulls: before the first instant, and the first instant.
ExpiringSinces == {-1, 0}

SyncPushExpiring ==
    \E caller \in {Caller("u1", "dA")}, vectorClock \in RequestClocks,
       change \in ExpiringChanges :
        Push(PushRequest(caller.user, caller.deviceId, vectorClock, <<change>>, <<>>))

SyncPullExpiring ==
    \E caller \in TaskCallers, since \in ExpiringSinces, limit \in Limits :
        Pull(PullRequest(caller.user, caller.deviceId, since, limit))

NextG == SyncPushExpiring \/ SyncPullExpiring \/ CleanupExpiredTombstones \/ Tick \/ Deliver

SpecG == Init /\ [][NextG]_vars

----------------------------------------------------------------------------
(* A device that pushes an edit made offline while the other device has    *)
(* edited the same task, and then pulls.                                   *)

ConvergingChanges ==
    {Change("create", [id |-> "t1", title |-> "A", vector_clock |-> [dA |-> 1]]),
     Change("update", [id |-> "t1", title |-> "B", vector_clock |-> [dA |-> 2]]),
     Change("update", [id |-> "t1", status |-> "done", vector_clock |-> [dA |-> 1, dB |-> 1]])}

SyncPushConverging ==
    \E caller \in TaskCallers, vectorClock \in RequestClocks, change \in ConvergingChanges :
        PushRecorded(PushRequest(caller.user, caller.deviceId, vectorClock, <<change>>, <<>>))

SyncPullConverging ==
    \E caller \in TaskCallers, since \in Sinces, limit \in Limits :
        Pull(PullRequest(caller.user, caller.deviceId, since, limit))

NextQ == SyncPushConverging \/ SyncPullConverging \/ Tick \/ Deliver

SpecQ == Init /\ [][NextQ]_vars

----------------------------------------------------------------------------
(* The clock functions on their own: every pair of clocks over two devices *)
(* with counters up to MaxCounter, a device absent or bound to 0 included, *)
(* and the value that is not a mapping.                                    *)

MaxCounter == 2

ClockInputs ==
    UNION {[S -> 0..MaxCounter] : S \in SUBSET ClockKeys} \cup {NotAMapping}

InitV ==
    /\ tasks = <<>>
    /\ comments = <<>>
    /\ tombstones = <<>>
    /\ conflicts = <<>>
    /\ devices = [d \in Devices \cup InactiveDevices |-> [vector_clock |-> EmptyClock]]
    /\ sync_log = <<>>
    /\ req \in {[clock1 |-> a, clock2 |-> b, kind |-> "clocks"] :
                    a \in ClockInputs, b \in ClockInputs}
    /\ pre = Database(<<>>, <<>>, <<>>, <<>>)
    /\ resp = NoResponse
    /\ now = 0
    /\ task_history = <<>>
    /\ last_push = NoRequest
    /\ reading = [d \in Devices |-> NotReading]
    /\ cache = [key \in Scopes \X Users |-> <<>>]

CompareClocks ==
    /\ resp = NoResponse
    /\ resp' = [relation |-> compare_vector_clocks(req.clock1, req.clock2),
                kind |-> "compared"]
    /\ UNCHANGED <<tasks, comments, tombstones, conflicts, devices, sync_log, req, pre, now,
                   last_push, reading, cache, task_history>>

MergeClocks ==
    /\ resp = NoResponse
    /\ resp' = [clock |-> merge_vector_clocks(req.clock1, req.clock2), kind |-> "merged"]
    /\ UNCHANGED <<tasks, comments, tombstones, conflicts, devices, sync_log, req, pre, now,
                   last_push, reading, cache, task_history>>

\* increment_vector_clock(device_id, clock1) for some device.
Incremented(device_id, out) ==
    /\ resp' = [clock |-> out.returned, device_id |-> device_id, kind |-> "incremented",
                argument |-> out.clock]
    /\ UNCHANGED <<tasks, comments, tombstones, conflicts, devices, sync_log, req, pre, now,
                   last_push, reading, cache, task_history>>

IncrementClock ==
    /\ resp = NoResponse
    /\ \E device_id \in Devices :
          Incremented(device_id, increment_vector_clock(device_id, req.clock1))

NextV == CompareClocks \/ MergeClocks \/ IncrementClock

SpecV == InitV /\ [][NextV]_vars

----------------------------------------------------------------------------
(* Conflicts raised by pushes, listed and resolved.                        *)

\* The state a request to the conflict endpoints and its outcome leave.
Requested(request, out) ==
    /\ req' = request
    /\ pre' = Current
    /\ tasks' = out.db.tasks
    /\ comments' = out.db.comments
    /\ tombstones' = out.db.tombstones
    /\ conflicts' = out.db.conflicts
    /\ resp' = out.resp
    /\ UNCHANGED <<devices, sync_log, now, last_push, reading, cache, task_history>>

\* Task t1 is created; device dB then pushes a concurrent retitling (left for manual
\* resolution) or a concurrent change of status (merged).
ConflictingChanges ==
    {Change("create", [id |-> "t1", title |-> "A", vector_clock |-> [dA |-> 1]]),
     Change("update", [id |-> "t1", title |-> "B", vector_clock |-> [dB |-> 1]]),
     Change("update", [id |-> "t1", status |-> "done", vector_clock |-> [dB |-> 1]])}

CustomResolutions ==
    {<<>>, <<[id |-> "t1", title |-> "C"]>>}

SyncPushConflicting ==
    \E caller \in TaskCallers, vectorClock \in RequestClocks, change \in ConflictingChanges :
        Push(PushRequest(caller.user, caller.deviceId, vectorClock, <<change>>, <<>>))

ConflictList ==
    /\ resp = NoResponse
    /\ \E user \in Users :
          Requested(ListRequest(user), conflict_list(Current, ListRequest(user)))

ConflictResolve ==
    /\ resp = NoResponse
    /\ \E user \in Users, pk \in 1..(Len(conflicts) + 1),
          resolution \in {"local", "remote", "custom"},
          customResolution \in CustomResolutions :
          Requested(ResolveRequest(user, pk, resolution, customResolution),
                    resolve(Current, ResolveRequest(user, pk, resolution, customResolution)))

NextX == SyncPushConflicting \/ ConflictList \/ ConflictResolve \/ Deliver

SpecX == Init /\ [][NextX]_vars

----------------------------------------------------------------------------
(* Requests under throttling: two users push, and one of them pulls and    *)
(* lists conflicts as well, at any pace while time passes.                 *)

\* APIView.initial: check_throttles runs before the handler.  A refused request
\* is answered 429 and the handler is not called.
Refused(request) ==
    /\ req' = request
    /\ pre' = Current
    /\ resp' = TooManyRequests(request.kind)
    /\ UNCHANGED <<tasks, comments, tombstones, conflicts, devices, sync_log, now, last_push,
                   reading, cache, task_history>>

\* An allowed request: the handler runs, and its instant is in the history.
Allowed(request, out, history) ==
    /\ req' = request
    /\ pre' = Current
    /\ tasks' = out.db.tasks
    /\ comments' = out.db.comments
    /\ tombstones' = out.db.tombstones
    /\ conflicts' = out.db.conflicts
    /\ devices' = out.devices
    /\ sync_log' = out.sync_log
    /\ resp' = out.resp
    /\ cache' = [cache EXCEPT ![get_cache_key(Scope(request), request.user)] = history]
    /\ UNCHANGED <<now, last_push, reading, task_history>>

Throttled(request, out, throttle) ==
    IF throttle.allowed THEN Allowed(request, out, throttle.history) ELSE Refused(request)

\* The outcome of a handler that writes no table, on the devices and log as they are.
Unwritten(out) ==
    [devices |-> devices, sync_log |-> sync_log, resp |-> out.resp, db |-> Current]

ThrottledCallers == {Caller("u1", "dA"), Caller("u2", "dC")}

ThrottledChanges ==
    {Change("create", [id |-> "t1", title |-> "A", vector_clock |-> [dA |-> 1]])}

ThrottledPush ==
    /\ resp = NoResponse
    /\ \E caller \in ThrottledCallers, change \in ThrottledChanges :
          Throttled(PushRequest(caller.user, caller.deviceId, EmptyClock, <<change>>, <<>>),
                    sync_push(Current, devices, sync_log,
                              PushRequest(caller.user, caller.deviceId, EmptyClock,
                                          <<change>>, <<>>)),
                    allow_request(cache[get_cache_key("sync_push", caller.user)], now))

\* The outcome of a pull, which writes its SyncLog row only.
PullOutcome(out) ==
    [devices |-> devices, sync_log |-> out.sync_log, resp |-> out.resp, db |-> Current]

ThrottledPullBy(request) ==
    \E task_order \in Ascending(PullTaskIds(Current, UserOrg(request.user),
                                              request.deviceId, request.since),
                                  LAMBDA id : tasks[id].updated_at),
       comment_order \in Ascending(PullCommentIds(Current, UserOrg(request.user),
                                                   request.deviceId, request.since),
                                     LAMBDA id : comments[id].updated_at),
       tombstone_order \in Ascending(PullTombstoneIds(Current, UserOrg(request.user),
                                                       request.deviceId, request.since),
                                       LAMBDA i : tombstones[i].created_at) :
        Throttled(request,
                  PullOutcome(sync_pull(Current, sync_log, request,
                                        task_order, comment_order, tombstone_order)),
                  allow_request(cache[get_cache_key("sync_pull", request.user)], now))

ThrottledPull ==
    /\ resp = NoResponse
    /\ \E caller \in {Caller("u1", "dA")} :
          ThrottledPullBy(PullRequest(caller.user, caller.deviceId, 0, 1))

ThrottledList ==
    /\ resp = NoResponse
    /\ \E user \in {"u1"} :
          Throttled(ListRequest(user), Unwritten(conflict_list(Current, ListRequest(user))),
                    allow_request(cache[get_cache_key("conflict_resolution", user)], now))

NextL == ThrottledPush \/ ThrottledPull \/ ThrottledList \/ Tick \/ Deliver

SpecL == Init /\ [][NextL]_vars

----------------------------------------------------------------------------
(* Pushes and pulls of user u1 that name a device of theirs, the device of *)
(* another user, an inactive device, no device, or no UUID.                *)

NamedDevices == {"dA", "dC", UnknownDevice, NotAUUID} \cup InactiveDevices

DeviceChanges ==
    {Change("create", [id |-> "t1", title |-> "A", vector_clock |-> [dA |-> 1]]),
     Change("update", [id |-> "t1", title |-> "B", vector_clock |-> [dA |-> 1, dB |-> 1]]),
     Change("delete", [id |-> "t1"])}

SyncPushDevice ==
    \E deviceId \in NamedDevices, vectorClock \in {EmptyClock, [dA |-> 1]},
       change \in DeviceChanges :
        Push(PushRequest("u1", deviceId, vectorClock, <<change>>, <<>>))

SyncPullDevice ==
    \E deviceId \in NamedDevices, since \in Sinces, limit \in Limits :
        Pull(PullRequest("u1", deviceId, since, limit))

NextD == SyncPushDevice \/ SyncPullDevice \/ Deliver

SpecD == Init /\ [][NextD]_vars

----------------------------------------------------------------------------
(* The field-level merge as a function of two payloads: each payload has   *)
(* at most MaxFields of the nine policy fields.                            *)

MaxFields == 2

FieldValues(f) ==
    CASE f = "title" -> {"A", "B"}
      [] f = "description" -> {"x", "y"}
      [] f = "status" -> {"todo", "in_progress", "blocked", "done", "cancelled"}
      [] f = "priority" -> {"low", "medium", "high", "urgent"}
      [] f = "due_date" -> {NoDate, "2026-03-10", "2026-03-15"}
      [] f = "assigned_to" -> {"u1", "u2"}
      [] f = "tags" -> {<<>>, <<"bug">>, <<"feature">>, <<"bug", "feature">>,
                        <<"feature", "bug">>}
      [] f = "custom_fields" -> UNION {[S -> {1, 2}] : S \in SUBSET {"k1", "k2"}}
      [] f = "position" -> {1, 2}

RECURSIVE PayloadsOver(_)
PayloadsOver(fields) ==
    IF fields = {} THEN {<<>>}
    ELSE LET f == CHOOSE x \in fields : TRUE
         IN  {(f :> v) @@ p : v \in FieldValues(f), p \in PayloadsOver(fields \ {f})}

PayloadShapes == {fields \in SUBSET PolicyFieldNames : Cardinality(fields) <= MaxFields}

InitA ==
    /\ tasks = <<>>
    /\ comments = <<>>
    /\ tombstones = <<>>
    /\ conflicts = <<>>
    /\ devices = [d \in Devices \cup InactiveDevices |-> [vector_clock |-> EmptyClock]]
    /\ sync_log = <<>>
    /\ \E local_fields \in PayloadShapes, server_fields \in PayloadShapes :
          req \in {[local_data |-> a, server_data |-> b, kind |-> "payloads"] :
                      a \in PayloadsOver(local_fields), b \in PayloadsOver(server_fields)}
    /\ pre = Database(<<>>, <<>>, <<>>, <<>>)
    /\ resp = NoResponse
    /\ now = 0
    /\ task_history = <<>>
    /\ last_push = NoRequest
    /\ reading = [d \in Devices |-> NotReading]
    /\ cache = [key \in Scopes \X Users |-> <<>>]

TaskResolved(out) ==
    /\ resp' = [unresolvable |-> out.unresolvable, resolved_data |-> out.resolved_data,
                auto_resolved |-> out.auto_resolved, kind |-> "resolved"]
    /\ UNCHANGED <<tasks, comments, tombstones, conflicts, devices, sync_log, req, pre, now,
                   last_push, reading, cache, task_history>>

AutoResolveTask ==
    /\ resp = NoResponse
    /\ TaskResolved(auto_resolve_task_conflict(req.local_data, req.server_data))

NextA == AutoResolveTask

SpecA == InitA /\ [][NextA]_vars

----------------------------------------------------------------------------
(* Pushes in flight: sync_push reads the device row before it opens its    *)
(* transaction and writes the device's clock from that row inside it, so   *)
(* each worker of the server is between the two for at most one request.   *)

Workers == {"w1", "w2"}

\* The worker serves no push.
NoPush == [device |-> [vector_clock |-> EmptyClock], request |-> NoRequest, written |-> TRUE]

\* The vectorClock of the requests.
DeviceClocks == {EmptyClock, [dA |-> 1], [dB |-> 1]}

InFlightChanges == {<<>>, <<Change("create", [id |-> "t1", title |-> "A"])>>}

InitI ==
    /\ tasks = <<>>
    /\ comments = <<>>
    /\ tombstones = <<>>
    /\ conflicts = <<>>
    /\ devices = [d \in Devices \cup InactiveDevices |-> [vector_clock |-> EmptyClock]]
    /\ sync_log = <<>>
    /\ req = NoRequest
    /\ pre = Database(<<>>, <<>>, <<>>, <<>>)
    /\ resp = NoResponse
    /\ now = 0
    /\ task_history = <<>>
    /\ last_push = NoRequest
    /\ reading = [w \in Workers |-> NoPush]
    /\ cache = [key \in Scopes \X Users |-> <<>>]

\* sync_push up to its transaction: the worker holds the device row it has read.
DeviceRead(worker, request) ==
    /\ reading[worker].written
    /\ Registered(request.deviceId, request.user)
    /\ reading' = [reading EXCEPT ![worker] =
                      [device |-> devices[request.deviceId], request |-> request,
                       written |-> FALSE]]
    /\ UNCHANGED <<tasks, comments, tombstones, conflicts, devices, sync_log, req, pre, resp,
                   now, last_push, cache, task_history>>

\* The atomic block of the outcome was rolled back, or never entered.
RolledBack(out) ==
    \/ out.resp.status = 400
    \/ out.sync_log = <<SyncLogRow("failed", "TransactionManagementError")>>

\* self.save(update_fields=['vector_clock']): the UPDATE of the one column of the
\* one row, with the value computed from the row the worker holds.
DeviceSaved(device_id, out) ==
    IF RolledBack(out) THEN devices
    ELSE [devices EXCEPT ![device_id].vector_clock = out.devices[device_id].vector_clock]

DeviceCommitted(worker, entry, out) ==
    /\ Outcome(entry.request, [out EXCEPT !.devices = DeviceSaved(entry.request.deviceId, out)])
    /\ reading' = [reading EXCEPT ![worker] = NoPush]
    /\ UNCHANGED <<now, last_push, cache, task_history>>

\* sync_push from its transaction on, over the device row read before it.
DeviceCommit(worker) ==
    /\ resp = NoResponse
    /\ ~reading[worker].written
    /\ DeviceCommitted(worker, reading[worker],
           sync_push(Current,
                     [devices EXCEPT ![reading[worker].request.deviceId] = reading[worker].device],
                     sync_log, reading[worker].request))

SyncPushBegin ==
    \E worker \in Workers, caller \in TaskCallers, vectorClock \in DeviceClocks,
       changes \in InFlightChanges :
        DeviceRead(worker, PushRequest(caller.user, caller.deviceId, vectorClock, changes, <<>>))

SyncPushEnd ==
    \E worker \in Workers : DeviceCommit(worker)

NextI == SyncPushBegin \/ SyncPushEnd \/ Deliver

SpecI == InitI /\ [][NextI]_vars

----------------------------------------------------------------------------
(* Properties of a push of task changes.  Between Push and Deliver, req is *)
(* the request, pre the tables it found, and the tables and resp its       *)
(* outcome.                                                                *)

\* The answered request carries a task change with this operation.
TaskChangeIs(operation) ==
    /\ req.kind = "push"
    /\ resp.kind = "push"
    /\ resp.status # 400
    /\ req.tasks # <<>>
    /\ req.tasks[1].operation = operation

TaskChange == req.tasks[1]

\* The change addresses a task the caller's organization held before the push.
OnStoredTask ==
    TaskAllObjects(pre, TaskChange.id, UserOrg(req.user))

StoredTask == pre.tasks[TaskChange.id]
TaskNow == tasks[TaskChange.id]

TaskRelation ==
    compare_vector_clocks(Get(TaskChange.data, "vector_clock", EmptyClock),
                          StoredTask.vector_clock)

\* An update of a stored task whose clock stands in this relation to the stored one.
TaskUpdateIs(relation) ==
    /\ TaskChangeIs("update")
    /\ OnStoredTask
    /\ TaskRelation = relation

\* C1: a push update whose clock is BEFORE the stored clock is dropped: the task
\* row keeps every field, no Conflict row is created, the response lists no
\* conflict and counts nothing as processed.
C1_StaleUpdateDropped ==
    TaskUpdateIs("BEFORE") =>
        /\ resp.status = 200
        /\ TaskNow = StoredTask
        /\ conflicts = pre.conflicts
        /\ resp.conflicts = <<>>
        /\ resp.processed = 0

\* C2: a push update whose clock is EQUAL to the stored clock leaves content,
\* version and clock of the row as stored, is counted as processed and reports
\* no conflict.
C2_EqualUpdateNoOp ==
    TaskUpdateIs("EQUAL") =>
        /\ resp.status = 200
        /\ TaskNow.title = StoredTask.title
        /\ TaskNow.status = StoredTask.status
        /\ TaskNow.version = StoredTask.version
        /\ TaskNow.vector_clock = StoredTask.vector_clock
        /\ conflicts = pre.conflicts
        /\ resp.conflicts = <<>>
        /\ resp.processed = 1

\* C3: a push update whose clock is AFTER the stored clock is accepted: the row
\* takes the payload's clock, every content field the payload carries takes the
\* payload's value, every other keeps the stored value, the row is attributed to
\* the pushing user and device, the change is counted as processed and there is
\* no conflict.
C3_NewerUpdateAccepted ==
    TaskUpdateIs("AFTER") =>
        /\ resp.status = 200
        /\ TaskNow.vector_clock = TaskChange.data["vector_clock"]
        /\ \A f \in TaskContentFields :
              TaskNow[f] = IF Has(TaskChange.data, f) THEN TaskChange.data[f] ELSE StoredTask[f]
        /\ TaskNow.organization = StoredTask.organization
        /\ TaskNow.deleted_at = StoredTask.deleted_at
        /\ TaskNow.last_modified_by = req.user
        /\ TaskNow.last_modified_device = req.deviceId
        /\ conflicts = pre.conflicts
        /\ resp.conflicts = <<>>
        /\ resp.processed = 1

\* C3 happens: a newer update from another device than the one that wrote the
\* row, changing the title and leaving the status out.
C3_NewerUpdateSeen ==
    /\ TaskUpdateIs("AFTER")
    /\ StoredTask.last_modified_device # req.deviceId
    /\ Has(TaskChange.data, "title")
    /\ TaskChange.data["title"] # StoredTask.title
    /\ ~Has(TaskChange.data, "status")
    /\ TaskNow.title = TaskChange.data["title"]

\* C4: an accepted write leaves the version strictly greater than before, whatever
\* version the payload carries (here: the update accepted as AFTER).
C4_AcceptedWriteRaisesVersion ==
    TaskUpdateIs("AFTER") => TaskNow.version > StoredTask.version

\* What the field merge makes of the change and the stored row.
TaskAuto ==
    auto_resolve_task_conflict(TaskChange.data, TaskSerializer(TaskChange.id, StoredTask))

\* C5: a push update concurrent with the stored row and without an unresolvable
\* field is merged: the row holds the merged fields, the merge of the payload's
\* and the stored clock, the version max(payload, stored) + 1 and the pusher's
\* attribution; the push adds exactly one Conflict row, marked auto_resolved, with
\* a resolved instant and both payloads; the response lists no conflict and
\* counts the change as processed.
C5_ConcurrentUpdateMerged ==
    (TaskUpdateIs("CONCURRENT") /\ TaskAuto.auto_resolved) =>
        /\ resp.status = 200
        /\ \A f \in TaskContentFields :
              TaskNow[f] = Get(TaskAuto.resolved_data, f, StoredTask[f])
        /\ TaskNow.vector_clock =
              merge_vector_clocks(TaskChange.data["vector_clock"], StoredTask.vector_clock)
        /\ TaskNow.version = Max(Get(TaskChange.data, "version", 1), StoredTask.version) + 1
        /\ TaskNow.last_modified_by = req.user
        /\ TaskNow.last_modified_device = req.deviceId
        /\ Len(conflicts) = Len(pre.conflicts) + 1
        /\ SubSeq(conflicts, 1, Len(pre.conflicts)) = pre.conflicts
        /\ LET row == conflicts[Len(conflicts)]
           IN  /\ row.entity_type = "task"
               /\ row.entity_id = TaskChange.id
               /\ row.resolution_strategy = "auto_resolved"
               /\ row.resolved_at # NULL
               /\ row.local_version = TaskChange.data
               /\ row.server_version = TaskSerializer(TaskChange.id, StoredTask)
        /\ resp.conflicts = <<>>
        /\ resp.processed = 1

\* C5 happens: a concurrent update that carries a status of higher rank than the
\* stored one and no title has been merged into the row.
C5_ConcurrentUpdateSeen ==
    /\ TaskUpdateIs("CONCURRENT")
    /\ TaskAuto.auto_resolved
    /\ ~Has(TaskChange.data, "title")
    /\ Has(TaskChange.data, "status")
    /\ StatusRank(TaskChange.data["status"]) > StatusRank(StoredTask.status)
    /\ TaskNow.status = TaskChange.data["status"]
    /\ TaskNow.version = StoredTask.version + 1
    /\ Len(conflicts) = 1

\* C7: a push create whose id is already stored is handled exactly like an update
\* with the same payload: the push succeeds and leaves the tables as the update
\* would.
C7_CreateOnStoredIsUpdate ==
    (TaskChangeIs("create") /\ OnStoredTask) =>
        /\ resp.status = 200
        /\ Current = _update_task(pre, TaskChange.data, req.user, req.deviceId).db

----------------------------------------------------------------------------
(* Properties of a push of comment changes, and of both kinds of entity.   *)

\* The answered request carries a comment change with this operation.
CommentChangeIs(operation) ==
    /\ req.kind = "push"
    /\ resp.kind = "push"
    /\ resp.status # 400
    /\ req.comments # <<>>
    /\ req.comments[1].operation = operation

CommentChange == req.comments[1]

\* The change addresses a comment the server held before the push.
OnStoredComment == CommentChange.id \in DOMAIN pre.comments

StoredComment == pre.comments[CommentChange.id]

CommentRelation ==
    compare_vector_clocks(Get(CommentChange.data, "vector_clock", EmptyClock),
                          StoredComment.vector_clock)

CommentAuto ==
    auto_resolve_comment_conflict(CommentChange.data,
                                  CommentSerializer(CommentChange.id, StoredComment))

\* A concurrent update of a stored task with an unresolvable field.
TaskUnresolvable ==
    /\ TaskUpdateIs("CONCURRENT")
    /\ ~TaskAuto.auto_resolved

\* A concurrent update of a stored comment with an unresolvable field.
CommentUnresolvable ==
    /\ CommentChangeIs("update")
    /\ OnStoredComment
    /\ CommentRelation = "CONCURRENT"
    /\ ~CommentAuto.auto_resolved

\* The push stored nothing but one unresolved Conflict row for the entity, with
\* both payloads, returned it with a reason naming the fields, and counted nothing.
LeftForManual(etype, change, server_data, unresolvable) ==
    /\ resp.status = 200
    /\ tasks = pre.tasks
    /\ comments = pre.comments
    /\ tombstones = pre.tombstones
    /\ Len(conflicts) = Len(pre.conflicts) + 1
    /\ SubSeq(conflicts, 1, Len(pre.conflicts)) = pre.conflicts
    /\ LET row == conflicts[Len(conflicts)]
       IN  /\ row.entity_type = etype
           /\ row.entity_id = change.id
           /\ row.resolved_at = NULL
           /\ row.resolution_strategy = NULL
           /\ row.local_version = change.data
           /\ row.server_version = server_data
           /\ resp.conflicts = <<_format_conflict(row)>>
           /\ row.conflict_reason =
                 "Concurrent modification detected. Unresolvable fields: " \o Join(unresolvable)
    /\ resp.processed = 0

\* C6 as stated: a concurrent update of a task or comment with an unresolvable
\* field leaves the entity unchanged, stores one unresolved Conflict row with both
\* payloads, returns it with a reason naming the fields, and is not counted as
\* processed.
C6_UnresolvableLeftForManual ==
    /\ TaskUnresolvable =>
          LeftForManual("task", TaskChange, TaskSerializer(TaskChange.id, StoredTask),
                        TaskAuto.unresolvable)
    /\ CommentUnresolvable =>
          LeftForManual("comment", CommentChange,
                        CommentSerializer(CommentChange.id, StoredComment),
                        CommentAuto.unresolvable)

\* The parent task of the stored comment is not soft-deleted.
StoredParentLive == pre.tasks[StoredComment.task].deleted_at = NULL

\* C6, amended: the same, for a task, and for a comment whose parent task is not
\* soft-deleted.
C6_UnresolvableUnderLiveParent ==
    /\ TaskUnresolvable =>
          LeftForManual("task", TaskChange, TaskSerializer(TaskChange.id, StoredTask),
                        TaskAuto.unresolvable)
    /\ (CommentUnresolvable /\ StoredParentLive) =>
          LeftForManual("comment", CommentChange,
                        CommentSerializer(CommentChange.id, StoredComment),
                        CommentAuto.unresolvable)

\* C6 happens: a comment under a live parent has met a concurrent update with
\* another content, and the response returns the conflict.
C6_UnresolvableSeen ==
    /\ CommentUnresolvable
    /\ StoredParentLive
    /\ CommentChange.data["content"] # StoredComment.content
    /\ Len(resp.conflicts) = 1
    /\ comments = pre.comments

\* The organization of a comment is that of its task.
CommentOrg(db, id) == db.tasks[db.comments[id].task].organization

\* The entity of this type and id belongs to another organization than org.
Foreign(db, etype, id, org) ==
    IF etype = "task"
    THEN id \in DOMAIN db.tasks /\ db.tasks[id].organization # org
    ELSE id \in DOMAIN db.comments /\ CommentOrg(db, id) # org

\* C8: a push by a user of one organization leaves every task and comment of
\* another organization as it was, and stores no Conflict row and no tombstone
\* about one.
C8_OrganizationIsolation ==
    (req.kind = "push" /\ resp.kind = "push") =>
        LET org == UserOrg(req.user)
        IN  /\ \A id \in DOMAIN pre.tasks :
                  Foreign(pre, "task", id, org) => tasks[id] = pre.tasks[id]
            /\ \A id \in DOMAIN pre.comments :
                  Foreign(pre, "comment", id, org) => comments[id] = pre.comments[id]
            /\ \A i \in (Len(pre.conflicts) + 1)..Len(conflicts) :
                  ~Foreign(pre, conflicts[i].entity_type, conflicts[i].entity_id, org)
            /\ \A i \in (Len(pre.tombstones) + 1)..Len(tombstones) :
                  ~Foreign(pre, tombstones[i].entity_type, tombstones[i].entity_id, org)

\* The caller's organization holds this comment, not deleted.
CommentObjects(db, id, org) ==
    /\ id \in DOMAIN db.comments
    /\ CommentOrg(db, id) = org
    /\ db.comments[id].deleted_at = NULL

\* The push added exactly the tombstone of this change.
TombstoneAdded(etype, change) ==
    /\ Len(tombstones) = Len(pre.tombstones) + 1
    /\ SubSeq(tombstones, 1, Len(pre.tombstones)) = pre.tombstones
    /\ LET row == tombstones[Len(tombstones)]
       IN  /\ row.entity_type = etype
           /\ row.entity_id = change.id
           /\ row.vector_clock = Get(change.data, "vector_clock", EmptyClock)
           /\ row.deleted_by = req.user
           /\ row.deleted_from_device = req.deviceId

\* C9: a push delete of an entity the caller holds live sets its deleted_at and
\* adds one tombstone with the payload's clock and the deleting user and device;
\* a delete of an absent or already deleted entity changes nothing; both are
\* counted as processed; and no entity ever has two tombstones.
C9_DeleteAndTombstone ==
    /\ TaskChangeIs("delete") =>
          /\ resp.status = 200
          /\ resp.processed = 1
          /\ comments = pre.comments
          /\ IF TaskObjects(pre, TaskChange.id, UserOrg(req.user))
             THEN /\ TaskNow = [StoredTask EXCEPT !.deleted_at = Stamp]
                  /\ TombstoneAdded("task", TaskChange)
             ELSE /\ tasks = pre.tasks
                  /\ tombstones = pre.tombstones
    /\ CommentChangeIs("delete") =>
          /\ resp.status = 200
          /\ resp.processed = 1
          /\ tasks = pre.tasks
          /\ IF CommentObjects(pre, CommentChange.id, UserOrg(req.user))
             THEN /\ comments[CommentChange.id] = [StoredComment EXCEPT !.deleted_at = Stamp]
                  /\ TombstoneAdded("comment", CommentChange)
             ELSE /\ comments = pre.comments
                  /\ tombstones = pre.tombstones
    /\ \A i, j \in DOMAIN tombstones :
          (/\ tombstones[i].entity_type = tombstones[j].entity_type
           /\ tombstones[i].entity_id = tombstones[j].entity_id) => i = j

\* The parent task of the change: that of the stored comment, else the payload's.
ParentOfChange ==
    IF OnStoredComment /\ CommentChange.operation = "update"
    THEN StoredComment.task
    ELSE CommentChange.data["task"]

\* C10: a push create or update of a comment whose parent task is absent from the
\* caller's organization or soft-deleted writes no Comment row, raises no
\* conflict, is counted as processed, and the push answers 200.
C10_OrphanCounted ==
    (/\ CommentChangeIs("create") \/ CommentChangeIs("update")
     /\ Has(CommentChange.data, "task") \/ (OnStoredComment /\ CommentChange.operation = "update")
     /\ ~TaskObjects(pre, ParentOfChange, UserOrg(req.user))) =>
        /\ resp.status = 200
        /\ comments = pre.comments
        /\ conflicts = pre.conflicts
        /\ resp.conflicts = <<>>
        /\ resp.processed = 1

----------------------------------------------------------------------------
(* Properties of a pull.  Between Pull and Deliver, req is the request,    *)
(* resp the response, and the tables are as the pull read them.            *)

\* The answered request is a pull that returned rows.
PullIs ==
    /\ req.kind = "pull"
    /\ resp.kind = "pull"
    /\ resp.status = 200

\* The rows of a sequence.
Rows(rows) == {rows[i] : i \in DOMAIN rows}

\* C11: a pull by a device returns no task or comment last modified by that
\* device, no tombstone of a deletion made from it, no tombstone that has expired
\* at the time of the pull, and only rows of the caller's organization.
C11_PullExcludesOwnExpiredForeign ==
    PullIs =>
        /\ \A row \in Rows(resp.tasks) :
              /\ row.last_modified_device # req.deviceId
              /\ tasks[row.id].organization = UserOrg(req.user)
        /\ \A row \in Rows(resp.comments) :
              /\ row.last_modified_device # req.deviceId
              /\ tasks[comments[row.id].task].organization = UserOrg(req.user)
        /\ \A row \in Rows(resp.tombstones) :
              /\ row.deleted_from_device # req.deviceId
              /\ row.expires_at > now
              /\ tombstones[row.id].organization = UserOrg(req.user)

\* C11 happens: a pull has returned a task and a tombstone while the tables hold
\* a comment the pulling device wrote last and a task of the other organization.
C11_PullSeen ==
    /\ PullIs
    /\ resp.tasks # <<>>
    /\ resp.tombstones # <<>>
    /\ resp.comments = <<>>
    /\ \E id \in DOMAIN comments :
          /\ comments[id].last_modified_device = req.deviceId
          /\ comments[id].updated_at > req.since
    /\ \E id \in DOMAIN tasks : tasks[id].organization # UserOrg(req.user)

\* The tasks, comments and tombstones a pull is to choose from, with their instants.
MatchingTasks ==
    {id \in DOMAIN tasks :
        /\ tasks[id].organization = UserOrg(req.user)
        /\ tasks[id].last_modified_device # req.deviceId
        /\ tasks[id].updated_at > req.since}

MatchingComments ==
    {id \in DOMAIN comments :
        /\ tasks[comments[id].task].organization = UserOrg(req.user)
        /\ comments[id].last_modified_device # req.deviceId
        /\ comments[id].updated_at > req.since}

MatchingTombstones ==
    {i \in DOMAIN tombstones :
        /\ tombstones[i].organization = UserOrg(req.user)
        /\ tombstones[i].deleted_from_device # req.deviceId
        /\ tombstones[i].expires_at > now
        /\ tombstones[i].created_at > req.since}

\* rows are at most limit of the rows matching, without repetition, in ascending
\* order of at, and no row left out is earlier than a row returned; rows are left
\* out only when the limit is reached.
EarliestOf(rows, matching, at(_), limit) ==
    /\ Len(rows) <= limit
    /\ \A i \in DOMAIN rows : rows[i].id \in matching
    /\ \A i, j \in DOMAIN rows : i < j =>
          /\ rows[i].id # rows[j].id
          /\ at(rows[i].id) <= at(rows[j].id)
    /\ \A id \in matching : (\A i \in DOMAIN rows : rows[i].id # id) =>
          /\ Len(rows) = limit
          /\ \A i \in DOMAIN rows : at(rows[i].id) <= at(id)

\* C12: a pull with cutoff since and limit n returns per collection at most n
\* rows, only tasks and comments updated strictly after since (soft-deleted ones
\* included) and tombstones created strictly after since, in ascending time order
\* and the n earliest of the matching rows; hasMore is true exactly when the task
\* list or the comment list has n entries.
C12_PullWindow ==
    PullIs =>
        /\ EarliestOf(resp.tasks, MatchingTasks, LAMBDA id : tasks[id].updated_at, req.limit)
        /\ EarliestOf(resp.comments, MatchingComments, LAMBDA id : comments[id].updated_at,
                      req.limit)
        /\ EarliestOf(resp.tombstones, MatchingTombstones,
                      LAMBDA i : tombstones[i].created_at, req.limit)
        /\ \A row \in Rows(resp.tasks) \cup Rows(resp.comments) : row.updated_at > req.since
        /\ \A row \in Rows(resp.tombstones) : row.created_at > req.since
        /\ resp.hasMore = (Len(resp.tasks) = req.limit \/ Len(resp.comments) = req.limit)

\* C12 happens: a pull with limit 1 has returned the earlier of two matching
\* tasks, one of them soft-deleted, and says there is more; a task updated at the
\* cutoff itself is not returned.
C12_PullWindowSeen ==
    /\ PullIs
    /\ req.limit = 1
    /\ Cardinality(MatchingTasks) = 2
    /\ Len(resp.tasks) = 1
    /\ \E id \in MatchingTasks : tasks[id].deleted_at # NULL
    /\ \E id \in MatchingTasks : tasks[id].updated_at > resp.tasks[1].updated_at
    /\ resp.hasMore

\* The pull answers a device of the organization of the latest push, which was
\* answered 200 with every change processed, later than the cutoff of the pull;
\* no collection of the pull has reached the limit.
RoundTripIs ==
    /\ PullIs
    /\ last_push # NoRequest
    /\ last_push.response.status = 200
    /\ last_push.response.processed =
          Len(last_push.request.tasks) + Len(last_push.request.comments)
    /\ UserOrg(req.user) = UserOrg(last_push.request.user)
    /\ req.since < last_push.at
    /\ Len(resp.tasks) < req.limit
    /\ Len(resp.comments) < req.limit
    /\ Len(resp.tombstones) < req.limit

\* A create, or an update that met no concurrent clock, of the latest push.
WrittenBy(change, table) ==
    /\ change.operation \in {"create", "update"}
    /\ change.id \in DOMAIN table =>
          compare_vector_clocks(Get(change.data, "vector_clock", EmptyClock),
                                table[change.id].vector_clock) # "CONCURRENT"

\* A delete of the latest push that found its entity live.
DeletedBy(change, table) ==
    /\ change.operation = "delete"
    /\ change.id \in DOMAIN table
    /\ table[change.id].deleted_at = NULL

\* The row of the entity is among rows, with every value the change carries.
Carries(rows, change, fields) ==
    \E row \in Rows(rows) :
        /\ row.id = change.id
        /\ \A f \in fields \cap DOMAIN change.data : row[f] = change.data[f]

Mentions(rows, etype, change) ==
    \E row \in Rows(rows) : row.entity_type = etype /\ row.entity_id = change.id

\* What the pull returns of the changes of the latest push: every write and
\* every deletion (of those in time, when in_time says which) to another device,
\* none of them to the pushing device itself.
RoundTrip(in_time) ==
    LET pushed == last_push.request
        before == last_push.before
        own == req.deviceId = pushed.deviceId
    IN  /\ \A i \in DOMAIN pushed.tasks :
              LET change == pushed.tasks[i]
              IN  /\ WrittenBy(change, before.tasks) =>
                        (~own <=> Carries(resp.tasks, change,
                                          {"title", "status", "version", "vector_clock"}))
                  /\ DeletedBy(change, before.tasks) =>
                        /\ own => ~Mentions(resp.tombstones, "task", change)
                        /\ (~own /\ in_time) => Mentions(resp.tombstones, "task", change)
        /\ \A i \in DOMAIN pushed.comments :
              LET change == pushed.comments[i]
              IN  /\ (WrittenBy(change, before.comments)
                         /\ ~ParentGone(before, change.data, pushed.user)) =>
                        (~own <=> Carries(resp.comments, change,
                                          {"content", "task", "version", "vector_clock"}))
                  /\ DeletedBy(change, before.comments) =>
                        /\ own => ~Mentions(resp.tombstones, "comment", change)
                        /\ (~own /\ in_time) => Mentions(resp.tombstones, "comment", change)

\* C13 as stated: after a push whose changes were accepted, a pull by another
\* device of the organization with an earlier cutoff and the limit not reached
\* returns each created or updated entity with the pushed values and a tombstone
\* for each deletion; the same pull by the pushing device returns none of them.
C13_RoundTrip ==
    RoundTripIs => RoundTrip(TRUE)

\* C13, amended: the same, the tombstone of a deletion being returned as long as
\* it has not expired at the time of the pull.
C13_RoundTripUnexpired ==
    RoundTripIs => RoundTrip(now < last_push.at + TombstoneExpiry)

\* C13 happens: device dB has pulled the deletion that device dA pushed, and the
\* tombstone is among the rows.
C13_RoundTripSeen ==
    /\ RoundTripIs
    /\ req.deviceId # last_push.request.deviceId
    /\ last_push.request.tasks # <<>>
    /\ DeletedBy(last_push.request.tasks[1], last_push.before.tasks)
    /\ resp.tombstones # <<>>
    /\ resp.tombstones[1].deleted_from_device = last_push.request.deviceId

\* The merge of the clocks of the live tasks and comments of an organization.
LiveOrganizationClock(db, org) ==
    MergeAll({db.tasks[id].vector_clock :
                 id \in {i \in DOMAIN db.tasks : /\ db.tasks[i].organization = org
                                                 /\ db.tasks[i].deleted_at = NULL}}
             \cup {db.comments[id].vector_clock :
                      id \in {i \in DOMAIN db.comments :
                                 /\ db.tasks[db.comments[i].task].organization = org
                                 /\ db.comments[i].deleted_at = NULL}})

\* C17: the serverVectorClock of a push or pull response is the component-wise
\* maximum of the clocks of the non-deleted tasks and comments of the caller's
\* organization, read after the request's writes.
C17_ServerClockOfLiveEntities ==
    (resp.kind \in {"push", "pull"} /\ resp.status = 200) =>
        resp.serverVectorClock = LiveOrganizationClock(Current, UserOrg(req.user))

----------------------------------------------------------------------------
(* Concurrent pushes                                                       *)

\* The tables two pushes leave when the second runs after the first has committed.
Serial(db, first, second) ==
    sync_push(sync_push(db, devices, sync_log, first).db, devices, sync_log, second).db

\* C14: two pushes from different devices that ran concurrently on the same tables
\* (both read them before either committed) leave the tables that running them one
\* after the other, in one of the two orders, leaves.
C14_ConcurrentPushesSerialize ==
    \A d1 \in Devices, d2 \in Devices :
        (/\ d1 # d2
         /\ reading[d1].request # NoRequest
         /\ reading[d2].request # NoRequest
         /\ reading[d1].written
         /\ reading[d2].written
         /\ reading[d1].found = reading[d1].before
         /\ reading[d2].found = reading[d1].before
         /\ reading[d2].before = reading[d1].after)
        => reading[d2].after \in
               {Serial(reading[d1].before, reading[d1].request, reading[d2].request),
                Serial(reading[d1].before, reading[d2].request, reading[d1].request)}

----------------------------------------------------------------------------
(* Failed pushes                                                           *)

\* C15: a push answered 500 has left every table as it found it and a SyncLog row
\* closed as failed with the error text; a push answered 200 has left a SyncLog
\* row closed as success.
C15_PushAllOrNothing ==
    (resp.kind = "push" /\ resp.status # 400) =>
        /\ resp.status = 500 =>
              /\ Current = pre
              /\ sync_log # <<>>
              /\ sync_log[1].status = "failed"
              /\ sync_log[1].error_message # NULL
        /\ resp.status = 200 =>
              /\ sync_log # <<>>
              /\ sync_log[1].status = "success"

----------------------------------------------------------------------------
(* The outcomes of the changes of a push                                   *)

\* The number of elements of the sequence seq that satisfy of.
Count(seq, of(_)) == Cardinality({i \in DOMAIN seq : of(seq[i])})

\* Every id is counted, as processed or as a conflict, at most as many times as
\* the changes name it.
CountedOnce(changes, progress) ==
    \A id \in {changes[i].id : i \in DOMAIN changes} :
        Count(progress.processed, LAMBDA p : p = id)
            + Count(progress.conflicts, LAMBDA c : c.entity_id = id)
          <= Count(changes, LAMBDA change : change.id = id)

\* C16: the changes counted as processed and those returned as conflicts of a push
\* are together no more than the changes of the request (the others were skipped
\* after an error), and no change is counted twice: in each loop an id is counted
\* at most once for each change that names it.
C16_OneOutcomePerChange ==
    (resp.kind = "push" /\ resp.status = 200) =>
        LET after_tasks == _process_task_changes(pre, req.tasks, req.user, req.deviceId)
            after_comments == _process_comment_changes(after_tasks, req.comments, req.user,
                                                       req.deviceId)
        IN  /\ resp.processed = Len(after_tasks.processed) + Len(after_comments.processed)
            /\ Len(resp.conflicts) = Len(after_tasks.conflicts) + Len(after_comments.conflicts)
            /\ resp.processed + Len(resp.conflicts) <= Len(req.tasks) + Len(req.comments)
            /\ CountedOnce(req.tasks, after_tasks)
            /\ CountedOnce(req.comments, after_comments)

\* C16 happens: of two changes of one push about the same task, one is counted as
\* processed and the other is returned as a conflict.
C16_OneOutcomeSeen ==
    /\ resp.kind = "push"
    /\ resp.status = 200
    /\ Len(req.tasks) = 2
    /\ req.tasks[1].id = req.tasks[2].id
    /\ resp.processed = 1
    /\ Len(resp.conflicts) = 1

----------------------------------------------------------------------------
(* Vector clocks                                                           *)

\* C18: compare_vector_clocks(A, B) is AFTER exactly when compare_vector_clocks(B, A)
\* is BEFORE, CONCURRENT exactly when the other is CONCURRENT, and
\* compare_vector_clocks(A, A) is EQUAL.
C18_CompareAntisymmetric ==
    resp.kind = "compared" =>
        /\ resp.relation = "AFTER"
              <=> compare_vector_clocks(req.clock2, req.clock1) = "BEFORE"
        /\ resp.relation = "CONCURRENT"
              <=> compare_vector_clocks(req.clock2, req.clock1) = "CONCURRENT"
        /\ req.clock1 = req.clock2 => resp.relation = "EQUAL"

\* C18 happens: two clocks, each ahead of the other on one device, have been
\* compared.
C18_CompareSeen ==
    /\ resp.kind = "compared"
    /\ req.clock1 = [dA |-> 2, dB |-> 0]
    /\ req.clock2 = [dB |-> 1]
    /\ resp.relation = "CONCURRENT"

\* C19: the merge of two clocks binds every device of either to the larger of its
\* two counters (0 where absent); merging in the other order gives the same clock;
\* the merge of a clock with itself is EQUAL to it; and the merge is AFTER or EQUAL
\* to each of the two.
C19_MergeIsUpperBound ==
    (resp.kind = "merged" /\ req.clock1 # NotAMapping /\ req.clock2 # NotAMapping) =>
        /\ DOMAIN resp.clock = DOMAIN req.clock1 \cup DOMAIN req.clock2
        /\ \A k \in DOMAIN resp.clock :
              resp.clock[k] = Max(IF k \in DOMAIN req.clock1 THEN req.clock1[k] ELSE 0,
                                  IF k \in DOMAIN req.clock2 THEN req.clock2[k] ELSE 0)
        /\ resp.clock = merge_vector_clocks(req.clock2, req.clock1)
        /\ req.clock1 = req.clock2 =>
              compare_vector_clocks(resp.clock, req.clock1) = "EQUAL"
        /\ compare_vector_clocks(resp.clock, req.clock1) \in {"AFTER", "EQUAL"}
        /\ compare_vector_clocks(resp.clock, req.clock2) \in {"AFTER", "EQUAL"}

\* C19 happens: two clocks of different devices have been merged into a third.
C19_MergeSeen ==
    /\ resp.kind = "merged"
    /\ req.clock1 = [dA |-> 2]
    /\ req.clock2 = [dA |-> 1, dB |-> 1]
    /\ resp.clock = [dA |-> 2, dB |-> 1]

\* The counter of a device in a clock: 0 when the device is absent, and in a value
\* that is not a mapping.
Component(clock, k) ==
    IF clock = NotAMapping THEN 0
    ELSE IF k \in DOMAIN clock THEN clock[k] ELSE 0

\* The reference definition of the relation of two clocks.
Reference(a, b) ==
    LET smaller == \E k \in ClockKeys : Component(a, k) < Component(b, k)
        larger == \E k \in ClockKeys : Component(a, k) > Component(b, k)
    IN  CASE ~smaller /\ ~larger -> "EQUAL"
          [] smaller /\ ~larger -> "BEFORE"
          [] larger /\ ~smaller -> "AFTER"
          [] smaller /\ larger -> "CONCURRENT"

\* C20: compare_vector_clocks returns the relation of the reference definition for
\* every pair of clocks over the devices, an absent device counting as 0 and a
\* value that is not a mapping as the empty clock.
C20_CompareAgreesWithReference ==
    resp.kind = "compared" => resp.relation = Reference(req.clock1, req.clock2)

\* C20 happens: a value that is not a mapping has been compared with a clock that
\* binds a device to 0, and found EQUAL.
C20_CompareReferenceSeen ==
    /\ resp.kind = "compared"
    /\ req.clock1 = NotAMapping
    /\ req.clock2 = [dA |-> 0]
    /\ resp.relation = "EQUAL"

\* C21: increment_vector_clock(d, C) returns a clock that binds d to one more than C
\* does (to 1 when d is absent from C) and every other device as C does, and leaves
\* the clock it was handed as it was.
C21_IncrementOwnComponent ==
    (resp.kind = "incremented" /\ req.clock1 # NotAMapping) =>
        /\ DOMAIN resp.clock = DOMAIN req.clock1 \cup {resp.device_id}
        /\ resp.clock[resp.device_id] = Component(req.clock1, resp.device_id) + 1
        /\ \A k \in DOMAIN req.clock1 \ {resp.device_id} : resp.clock[k] = req.clock1[k]
        /\ resp.argument = req.clock1

\* C21 happens: a clock of two devices has been incremented for one of them.
C21_IncrementSeen ==
    /\ resp.kind = "incremented"
    /\ req.clock1 = [dA |-> 2, dB |-> 1]
    /\ resp.device_id = "dA"
    /\ resp.clock = [dA |-> 3, dB |-> 1]

----------------------------------------------------------------------------
(* Conflict resolution                                                     *)

\* The conflicts get_queryset is meant to select: those of the user, unresolved.
OwnUnresolved(db, user) ==
    {i \in DOMAIN db.conflicts :
        db.conflicts[i].user = user /\ db.conflicts[i].resolved_at = NULL}

\* The request is a well-formed resolve of an unresolved conflict of the caller
\* about a task that is stored and live.
ResolveIs ==
    /\ resp.kind = "resolve"
    /\ req.pk \in OwnUnresolved(pre, req.user)
    /\ req.resolution = "custom" => req.customResolution # <<>>
    /\ pre.conflicts[req.pk].entity_type = "task"
    /\ pre.conflicts[req.pk].entity_id \in DOMAIN pre.tasks
    /\ pre.tasks[pre.conflicts[req.pk].entity_id].deleted_at = NULL

\* The payload the resolve request chooses.
Chosen ==
    CASE req.resolution = "local" -> pre.conflicts[req.pk].local_version
      [] req.resolution = "remote" -> pre.conflicts[req.pk].server_version
      [] OTHER -> req.customResolution[1]

\* C22: a manual resolution leaves the entity with the merge of the conflict's
\* local clock and the stored clock and with a version one above the larger of the
\* local and the stored version, and leaves its organization as it was.
C22_ResolutionMergesClock ==
    ResolveIs =>
        LET id == pre.conflicts[req.pk].entity_id
        IN  /\ resp.status = 200
            /\ tasks[id].vector_clock =
                  merge_vector_clocks(pre.conflicts[req.pk].local_vector_clock,
                                      pre.tasks[id].vector_clock)
            /\ tasks[id].version =
                  Max(Get(pre.conflicts[req.pk].local_version, "version", 1),
                      pre.tasks[id].version) + 1
            /\ tasks[id].organization = pre.tasks[id].organization

\* C23: a successful resolve stores the chosen payload as resolved_version, with
\* the instant, the caller as resolver and the strategy, and the entity holds the
\* content of that payload.
C23_ResolveAppliesChosen ==
    ResolveIs =>
        LET id == pre.conflicts[req.pk].entity_id
        IN  /\ resp.status = 200
            /\ resp.resolvedEntity = <<Chosen>>
            /\ conflicts[req.pk].resolved_at # NULL
            /\ conflicts[req.pk].resolved_by = req.user
            /\ conflicts[req.pk].resolution_strategy = req.resolution
            /\ conflicts[req.pk].resolved_version = <<Chosen>>
            /\ \A f \in TaskContentFields \cap DOMAIN Chosen : tasks[id][f] = Chosen[f]

\* C24: the conflict list is answered with exactly the unresolved conflicts of the
\* caller, and a resolve of any other conflict id is answered 404 and changes no
\* table.
C24_ConflictListAndNotFound ==
    /\ resp.kind = "conflicts" =>
          /\ resp.status = 200
          /\ DOMAIN resp.rows = OwnUnresolved(pre, req.user)
    /\ (resp.kind = "resolve" /\ req.pk \notin OwnUnresolved(pre, req.user)) =>
          /\ resp.status = 404
          /\ Current = pre

----------------------------------------------------------------------------
(* Throttling                                                              *)

\* The tables, devices and sync log are left as they are.
ServerStateUnchanged ==
    UNCHANGED <<tasks, comments, tombstones, conflicts, devices, sync_log>>

\* C25: a request is answered 429 exactly when the history of its scope and user
\* holds ThrottleRate instants inside the window, whatever the histories of other
\* users and scopes hold; a request answered 429 changes no table, no device and
\* no sync log.
C25_ThrottledByScopeAndUser ==
    [][resp' # NoResponse =>
         /\ resp'.status = 429
               <=> Len(Recent(cache[get_cache_key(Scope(req'), req'.user)], now))
                     >= ThrottleRate
         /\ resp'.status = 429 => ServerStateUnchanged]_vars

\* C25 happens: user u1 is refused a push while the history of user u2 in the
\* scope is empty, after an earlier window of u1 has expired.
C25_ThrottledSeen ==
    /\ resp # NoResponse
    /\ resp.status = 429
    /\ req.kind = "push"
    /\ req.user = "u1"
    /\ now = 1
    /\ cache[get_cache_key("sync_push", "u1")] = <<1, 1>>
    /\ cache[get_cache_key("sync_push", "u2")] = <<>>
    /\ cache[get_cache_key("sync_pull", "u1")] = <<0, 0>>

----------------------------------------------------------------------------
(* Devices                                                                 *)

\* C26: a push or pull that names a device which is not an active device of the
\* caller is answered 400 and changes no table, no device and no sync log.
C26_InvalidDeviceRejected ==
    [][(/\ resp' # NoResponse
        /\ resp'.kind \in {"push", "pull"}
        /\ ~Registered(req'.deviceId, req'.user))
       => (resp'.status = 400 /\ ServerStateUnchanged)]_vars

----------------------------------------------------------------------------
(* Field-level merge of two task payloads.  req holds the two payloads and *)
(* resp what auto_resolve_task_conflict returned for them.                 *)

\* The place of a value in an order given as a sequence.
RankIn(order, v) == CHOOSE i \in DOMAIN order : order[i] = v

\* The value of the two with the higher place in the order.
HigherIn(order, a, b) == IF RankIn(order, a) >= RankIn(order, b) THEN a ELSE b

Elements(list) == {list[i] : i \in DOMAIN list}

\* The field is in both payloads of the request.
InBoth(f) == Has(req.local_data, f) /\ Has(req.server_data, f)

\* The sequence lists the set in alphabetical order, each element once.
SortedListOf(list, set) ==
    /\ Elements(list) = set
    /\ \A i, j \in DOMAIN list :
          i < j => RankIn(<<"bug", "feature">>, list[i]) < RankIn(<<"bug", "feature">>, list[j])

\* C27: for a field in both payloads the merge holds, for status, the value of
\* higher rank in todo < in_progress < blocked < done < cancelled; for priority
\* the value of higher rank in low < medium < high < urgent; for tags the sorted
\* union; for due_date the earlier date, a null losing to any date; for position
\* the server's value.  Swapping the payloads gives the same value (except for
\* position), and none of these fields is reported unresolvable.
C27_MergeRules ==
    resp.kind = "resolved" =>
        LET local_data == req.local_data
            server_data == req.server_data
            merged == resp.resolved_data
            swapped == auto_resolve_task_conflict(server_data, local_data).resolved_data
        IN  /\ InBoth("status") =>
                 merged.status
                   = HigherIn(<<"todo", "in_progress", "blocked", "done", "cancelled">>,
                              local_data.status, server_data.status)
            /\ InBoth("priority") =>
                 merged.priority = HigherIn(<<"low", "medium", "high", "urgent">>,
                                            local_data.priority, server_data.priority)
            /\ InBoth("tags") =>
                 SortedListOf(merged.tags,
                              Elements(local_data.tags) \cup Elements(server_data.tags))
            /\ InBoth("due_date") =>
                 merged.due_date
                   = IF local_data.due_date = "None" THEN server_data.due_date
                     ELSE IF server_data.due_date = "None" THEN local_data.due_date
                     ELSE HigherIn(<<"2026-03-15", "2026-03-10">>,
                                   local_data.due_date, server_data.due_date)
            /\ InBoth("position") => merged.position = server_data.position
            /\ \A f \in {"status", "priority", "tags", "due_date"} :
                  InBoth(f) => swapped[f] = merged[f]
            /\ \A f \in {"status", "priority", "tags", "due_date", "position"} :
                  \A i \in DOMAIN resp.unresolvable : resp.unresolvable[i] # f

\* C27 happens: a local payload due on no date with tags feature, bug has been
\* merged with a server payload due on 15 March with tag bug.
C27_MergeRulesSeen ==
    /\ resp.kind = "resolved"
    /\ req.local_data = [due_date |-> "None", tags |-> <<"feature", "bug">>]
    /\ req.server_data = [due_date |-> "2026-03-15", tags |-> <<"bug">>]
    /\ resp.resolved_data = [due_date |-> "2026-03-15", tags |-> <<"bug", "feature">>]
    /\ resp.auto_resolved

\* The two payloads of the request have the field and differ on it.
Disagree(f) == InBoth(f) /\ req.local_data[f] # req.server_data[f]

\* The keys bound in the custom_fields of both payloads of the request.
SharedKeys ==
    IF InBoth("custom_fields")
    THEN DOMAIN req.local_data.custom_fields \cap DOMAIN req.server_data.custom_fields
    ELSE {}

\* C28: title, description and assigned_to are reported unresolvable exactly when
\* the payloads disagree on them, custom_fields exactly when the payloads disagree
\* on a key bound in both, and no other field is reported; auto_resolved is true
\* exactly when nothing is reported; a title, description, assignee or custom
\* field value on which the payloads agree is the merged one.
C28_UnresolvableFields ==
    resp.kind = "resolved" =>
        LET local_data == req.local_data
            server_data == req.server_data
            reported == Elements(resp.unresolvable)
        IN  /\ \A f \in {"title", "description", "assigned_to"} :
                  f \in reported <=> Disagree(f)
            /\ "custom_fields" \in reported
                  <=> \E k \in SharedKeys :
                         local_data.custom_fields[k] # server_data.custom_fields[k]
            /\ reported \subseteq {"title", "description", "assigned_to", "custom_fields"}
            /\ resp.auto_resolved <=> resp.unresolvable = <<>>
            /\ \A f \in {"title", "description", "assigned_to"} :
                  (InBoth(f) /\ ~Disagree(f)) => resp.resolved_data[f] = local_data[f]
            /\ \A k \in SharedKeys :
                  local_data.custom_fields[k] = server_data.custom_fields[k]
                     => resp.resolved_data.custom_fields[k] = local_data.custom_fields[k]

\* C28 happens: two payloads with the same title whose custom fields agree on key
\* k1 and disagree on key k2 have been merged.
C28_UnresolvableSeen ==
    /\ resp.kind = "resolved"
    /\ req.local_data = [title |-> "A", custom_fields |-> [k1 |-> 1, k2 |-> 2]]
    /\ req.server_data = [title |-> "A", custom_fields |-> [k1 |-> 1, k2 |-> 1]]
    /\ resp.unresolvable = <<"custom_fields">>
    /\ ~resp.auto_resolved
    /\ resp.resolved_data.title = "A"
    /\ resp.resolved_data.custom_fields.k1 = 1

----------------------------------------------------------------------------
(* Concurrent updates of comments                                          *)

\* The answered push carries an update of a stored comment, with a content, whose
\* clock is concurrent with the stored one.
CommentConcurrent ==
    /\ CommentChangeIs("update")
    /\ OnStoredComment
    /\ CommentRelation = "CONCURRENT"
    /\ Has(CommentChange.data, "content")

\* What C29 says of a concurrent update: with the stored content it is merged, the
\* clocks joined, nothing surfaced and the change counted; with another content
\* the comment is left as it was and a conflict on content is stored and
\* returned.
MergedOrLeft ==
    IF CommentChange.data["content"] = StoredComment.content
    THEN /\ resp.status = 200
         /\ comments[CommentChange.id].vector_clock
               = merge_vector_clocks(Get(CommentChange.data, "vector_clock", EmptyClock),
                                     StoredComment.vector_clock)
         /\ comments[CommentChange.id].content = StoredComment.content
         /\ conflicts = pre.conflicts
         /\ resp.conflicts = <<>>
         /\ resp.processed = 1
    ELSE LeftForManual("comment", CommentChange,
                       CommentSerializer(CommentChange.id, StoredComment), <<"content">>)

\* C29 as stated: every concurrent update of a stored comment is merged when its
\* content is the stored one, and left for manual resolution with a conflict on
\* content when it is not.
C29_CommentConcurrentUpdate == CommentConcurrent => MergedOrLeft

\* C29, amended: the same, for a comment whose parent task is not soft-deleted.
C29_CommentConcurrentLiveParent == (CommentConcurrent /\ StoredParentLive) => MergedOrLeft

\* C29 happens: under a live parent, a concurrent update with the stored content
\* has been merged and the comment's clock has grown on both devices.
C29_CommentMergedSeen ==
    /\ CommentConcurrent
    /\ StoredParentLive
    /\ CommentChange.data["content"] = StoredComment.content
    /\ comments[CommentChange.id].vector_clock # StoredComment.vector_clock
    /\ comments[CommentChange.id].vector_clock
          # Get(CommentChange.data, "vector_clock", EmptyClock)
    /\ resp.processed = 1

----------------------------------------------------------------------------
(* Device clocks                                                           *)

\* C30: in every step no component of a stored device clock decreases; the step
\* that answers a push with 200 leaves the clock of its device equal to the merge
\* of the clock stored before the step with the request's vectorClock; and a
\* device's clock changes only in the step that answers a push of that device.
C30_DeviceClockGrows ==
    [][/\ \A d \in DOMAIN devices :
             \A k \in Devices :
                Component(devices[d].vector_clock, k) <= Component(devices'[d].vector_clock, k)
       /\ (resp = NoResponse /\ resp'.kind = "push" /\ resp'.status = 200) =>
             devices'[req'.deviceId].vector_clock
                = merge_vector_clocks(devices[req'.deviceId].vector_clock, req'.vectorClock)
       /\ \A d \in DOMAIN devices :
             devices'[d] # devices[d] =>
                (resp = NoResponse /\ resp'.kind = "push" /\ req'.deviceId = d)]_vars

----------------------------------------------------------------------------
(* Errors of single changes                                                *)

\* What the handler of a task change returns or raises on the tables db.
TaskOutcome(db, change, user, device) ==
    CASE change.operation = "create" -> _create_task(db, change.data, user, device)
      [] change.operation = "update" -> _update_task(db, change.data, user, device)
      [] change.operation = "delete" -> _delete_task(db, change.id, change.data, user, device)

\* The tables after the task changes that raise no error, each applied in its
\* turn, the others passed over.
RECURSIVE SkippedOver(_, _, _, _)
SkippedOver(db, changes, user, device) ==
    IF changes = <<>> THEN db
    ELSE LET result == TaskOutcome(db, Head(changes), user, device)
         IN  SkippedOver(IF result.raised = "none" THEN result.db ELSE db,
                         Tail(changes), user, device)

\* Some task change of the list raises an error when its turn comes.
RECURSIVE SomeRaises(_, _, _, _)
SomeRaises(db, changes, user, device) ==
    /\ changes # <<>>
    /\ LET result == TaskOutcome(db, Head(changes), user, device)
       IN  \/ result.raised # "none"
           \/ SomeRaises(result.db, Tail(changes), user, device)

\* C31: a push in which a task change raises an error is answered 200 all the
\* same, and the tasks are left as the other changes of the push make them.
C31_ErrorSkipsChangeOnly ==
    (/\ req.kind = "push"
     /\ resp.kind = "push"
     /\ resp.status # 400
     /\ SomeRaises(pre, req.tasks, req.user, req.deviceId)) =>
        /\ resp.status = 200
        /\ tasks = SkippedOver(pre, req.tasks, req.user, req.deviceId).tasks

----------------------------------------------------------------------------
(* The sync log                                                            *)

\* The SyncLog row of the request just answered.
LoggedRow == sync_log[Len(sync_log)]

\* C32: the SyncLog row of a push answered 200 has entities_pushed equal to the
\* response's processed and conflicts_detected equal to the number of conflicts
\* returned; that of a pull answered 200 has entities_pulled equal to the number
\* of tasks and comments returned; the row is completed and its counters are not
\* negative.
C32_SyncLogCounters ==
    /\ (resp.kind = "push" /\ resp.status = 200) =>
          /\ LoggedRow.sync_type = "push"
          /\ LoggedRow.entities_pushed = resp.processed
          /\ LoggedRow.conflicts_detected = Len(resp.conflicts)
          /\ LoggedRow.completed_at # NULL
    /\ (resp.kind = "pull" /\ resp.status = 200) =>
          /\ LoggedRow.sync_type = "pull"
          /\ LoggedRow.entities_pulled = Len(resp.tasks) + Len(resp.comments)
          /\ LoggedRow.completed_at # NULL
    /\ \A i \in DOMAIN sync_log :
          /\ sync_log[i].entities_pushed >= 0
          /\ sync_log[i].entities_pulled >= 0
          /\ sync_log[i].conflicts_detected >= 0

----------------------------------------------------------------------------
(* The order of the changes of a push                                      *)

\* What the handler of a comment change returns or raises on the tables db.
CommentOutcome(db, change, user, device) ==
    CASE change.operation = "create" -> _create_comment(db, change.data, user, device)
      [] change.operation = "update" -> _update_comment(db, change.data, user, device)
      [] change.operation = "delete" -> _delete_comment(db, change.id, change.data, user,
                                                        device)

\* The tables after the comment changes that raise no error, each applied in its
\* turn to what the earlier ones left.
RECURSIVE CommentsSkippedOver(_, _, _, _)
CommentsSkippedOver(db, changes, user, device) ==
    IF changes = <<>> THEN db
    ELSE LET result == CommentOutcome(db, Head(changes), user, device)
         IN  CommentsSkippedOver(IF result.raised = "none" THEN result.db ELSE db,
                                 Tail(changes), user, device)

\* C33: a push answered 200 leaves the tables as its task changes, each applied in
\* the order listed to what the earlier ones left, and then its comment changes in
\* the same way, make them; a create followed by an update of the same id leaves
\* the row the update makes of the created one, and a comment created with its
\* parent task is stored.
C33_ChangesInListedOrder ==
    (req.kind = "push" /\ resp.kind = "push" /\ resp.status = 200) =>
        LET after_tasks == SkippedOver(pre, req.tasks, req.user, req.deviceId)
            after == CommentsSkippedOver(after_tasks, req.comments, req.user, req.deviceId)
        IN  /\ Current = after
            /\ \A i \in DOMAIN req.comments :
                  (/\ req.comments[i].operation = "create"
                   /\ req.comments[i].id \notin DOMAIN pre.comments
                   /\ \E j \in DOMAIN req.tasks :
                         /\ req.tasks[j].operation = "create"
                         /\ req.tasks[j].id = req.comments[i].data["task"]
                         /\ req.tasks[j].id \in DOMAIN tasks
                         /\ tasks[req.tasks[j].id].deleted_at = NULL
                         /\ tasks[req.tasks[j].id].organization = UserOrg(req.user))
                     => req.comments[i].id \in DOMAIN comments

\* C33 happens: one push has created task t1, retitled it with a later clock and
\* created comment c1 on it; the title is the update's and the comment is stored.
C33_ChangesInOrderSeen ==
    /\ req.kind = "push"
    /\ resp.kind = "push"
    /\ resp.status = 200
    /\ pre.tasks = <<>>
    /\ Len(req.tasks) = 2
    /\ req.tasks[1].operation = "create"
    /\ req.tasks[2].operation = "update"
    /\ req.tasks[2].data["vector_clock"] = [dA |-> 1, dB |-> 1]
    /\ tasks["t1"].title = "B"
    /\ resp.processed = 3
    /\ "c1" \in DOMAIN comments

\* C34: every stored task's checksum is the checksum of the content the row holds,
\* after every push that creates, updates, merges or deletes it.
C34_ChecksumOfContent ==
    \A id \in DOMAIN tasks : tasks[id].checksum = calculate_checksum(tasks[id])

\* The change type of the step that takes task id from its row before to its row after.
ChangeTypeOf(id, before, after) ==
    IF id \notin DOMAIN before THEN "created"
    ELSE IF before[id].deleted_at = NULL /\ after[id].deleted_at # NULL THEN "deleted"
    ELSE IF before[id].deleted_at # NULL /\ after[id].deleted_at = NULL THEN "restored"
    ELSE "updated"

\* C35: every step that creates a task or changes its row appends exactly one row
\* of task_history, about that task and of the matching change type, and leaves
\* the rows before it as they were.
C35_HistoryOfEveryChange ==
    [][\A id \in DOMAIN tasks' :
          (id \notin DOMAIN tasks \/ tasks'[id] # tasks[id]) =>
              /\ Len(task_history') = Len(task_history) + 1
              /\ SubSeq(task_history', 1, Len(task_history)) = task_history
              /\ task_history'[Len(task_history')].task = id
              /\ task_history'[Len(task_history')].change_type = ChangeTypeOf(id, tasks, tasks')]_vars

\* The step is a pull answered 200.
PullStep == resp = NoResponse /\ resp'.kind = "pull" /\ resp'.status = 200

\* The step is a run of the cleanup job.
CleanupStep == resp = NoResponse /\ resp'.kind = "cleanup"

\* Tombstone i is one the pull of this step asks for: of the caller's
\* organization, not deleted from the calling device, created after since.
AskedFor(i) ==
    /\ tombstones[i].organization = UserOrg(req'.user)
    /\ tombstones[i].deleted_from_device # req'.deviceId
    /\ tombstones[i].created_at > req'.since

\* Tombstone i is among the rows of the pull of this step.
ReturnedTombstone(i) ==
    \E j \in DOMAIN resp'.tombstones :
        /\ resp'.tombstones[j].entity_type = tombstones[i].entity_type
        /\ resp'.tombstones[j].entity_id = tombstones[i].entity_id
        /\ resp'.tombstones[j].created_at = tombstones[i].created_at

\* The pull of this step returned limit tombstones, none created after tombstone i.
LimitReachedBefore(i) ==
    /\ Len(resp'.tombstones) = req'.limit
    /\ \A j \in DOMAIN resp'.tombstones :
          resp'.tombstones[j].created_at <= tombstones[i].created_at

\* Every tombstone expires TombstoneExpiry after its creation, and a run of the
\* cleanup job removes the tombstones whose expiry is in the past and no others.
ExpiryAndCleanup ==
    /\ \A i \in DOMAIN tombstones' :
          tombstones'[i].expires_at = tombstones'[i].created_at + TombstoneExpiry
    /\ CleanupStep =>
          tombstones' = SelectSeq(tombstones, LAMBDA row : ~(row.expires_at < now))
    /\ ~CleanupStep =>
          SubSeq(tombstones', 1, Len(tombstones)) = tombstones

\* C36 as stated: every tombstone expires TombstoneExpiry after its creation; the
\* cleanup job removes exactly the tombstones whose expiry is in the past; a pull
\* answered 200 returns every tombstone it asks for before its expiry, and none
\* at or after its expiry.
C36_TombstoneLife ==
    [][/\ ExpiryAndCleanup
       /\ PullStep =>
             \A i \in DOMAIN tombstones :
                 AskedFor(i) => (ReturnedTombstone(i) <=> now < tombstones[i].expires_at)]_vars

\* C36, amended: the same, a tombstone before its expiry being returned unless
\* the pull returns limit tombstones created no later in its place.
C36_TombstoneLifeWithinLimit ==
    [][/\ ExpiryAndCleanup
       /\ PullStep =>
             \A i \in DOMAIN tombstones :
                 AskedFor(i) =>
                     /\ ReturnedTombstone(i) => now < tombstones[i].expires_at
                     /\ now < tombstones[i].expires_at =>
                           ReturnedTombstone(i) \/ LimitReachedBefore(i)]_vars

\* C36 happens: a pull by the other device has returned the one tombstone that
\* has not expired and left out the one that expires at this instant, which the
\* cleanup job would not remove yet.
C36_TombstoneLifeSeen ==
    /\ resp.kind = "pull"
    /\ resp.status = 200
    /\ req.deviceId = "dB"
    /\ req.since = -1
    /\ Len(tombstones) = 2
    /\ tombstones[1].expires_at = now
    /\ tombstones[2].expires_at > now
    /\ cleanup_expired(tombstones, now).deleted_count = 0
    /\ Len(resp.tombstones) = 1
    /\ resp.tombstones[1].entity_id = tombstones[2].entity_id

\* Conflict.RESOLUTION_STRATEGY_CHOICES.
RESOLUTION_STRATEGY_CHOICES ==
    {"manual", "auto_merge", "local_wins", "server_wins", "auto_resolved"}

AutoResolvedPushIs ==
    /\ last_push # NoRequest
    /\ last_push.response.status = 200
    /\ Len(last_push.request.tasks) = 1
    /\ last_push.request.comments = <<>>
    /\ last_push.response.conflicts = <<>>
    /\ LET change == last_push.request.tasks[1]
       IN  /\ change.operation = "update"
           /\ change.id \in DOMAIN last_push.before.tasks
           /\ last_push.before.tasks[change.id].deleted_at = NULL
           /\ compare_vector_clocks(Get(change.data, "vector_clock", EmptyClock),
                                    last_push.before.tasks[change.id].vector_clock)
                  = "CONCURRENT"
           /\ tasks[change.id].vector_clock # Get(change.data, "vector_clock", EmptyClock)

\* C38: after a push of device D that the server auto-resolved into a merged row,
\* a pull by D with a cutoff before the push, answered 200 with the limit not
\* reached, returns the merged row.
C38_PusherLearnsMerge ==
    (PullIs /\ AutoResolvedPushIs /\ req.deviceId = last_push.request.deviceId
        /\ req.since < last_push.at /\ Len(resp.tasks) < req.limit) =>
        \E row \in Rows(resp.tasks) :
            /\ row.id = last_push.request.tasks[1].id
            /\ row.title = tasks[row.id].title
            /\ row.status = tasks[row.id].status
            /\ row.vector_clock = tasks[row.id].vector_clock

\* C39: a pull answered with hasMore false has returned every tombstone of the
\* caller's organization created after since that has not expired and was not
\* deleted from the calling device.
C39_NoMoreMeansAllTombstones ==
    (PullIs /\ ~resp.hasMore) =>
        \A i \in MatchingTombstones :
            \E row \in Rows(resp.tombstones) :
                /\ row.entity_type = tombstones[i].entity_type
                /\ row.entity_id = tombstones[i].entity_id

\* C40: a step that answers a pull, with whatever status, leaves tasks, comments,
\* tombstones, conflicts and devices as they were; the SyncLog row is the one
\* thing it may write, and the row it leaves then is a completed pull row.
C40_PullReadOnly ==
    [][(resp = NoResponse /\ resp'.kind = "pull") =>
          /\ UNCHANGED <<tasks, comments, tombstones, conflicts, devices, task_history>>
          /\ sync_log' # sync_log =>
                /\ Len(sync_log') = 1
                /\ sync_log'[1].sync_type = "pull"
                /\ sync_log'[1].completed_at # NULL
                /\ sync_log'[1].status = IF resp'.status = 200 THEN "success" ELSE "failed"]_vars

\* C40 happens: a pull has failed with status 500 and closed its SyncLog row as
\* failed, over tables that hold a task and a tombstone and are as the pull
\* found them, the calling device having a clock.
C40_FailedPullSeen ==
    /\ req.kind = "pull"
    /\ resp.kind = "pull"
    /\ resp.status = 500
    /\ sync_log # <<>>
    /\ sync_log[1].sync_type = "pull"
    /\ sync_log[1].status = "failed"
    /\ DOMAIN tasks # {}
    /\ tombstones # <<>>
    /\ pre = Current

====
